---- MODULE Spec2Model ----
(***************************************************************************)
(* A model of s4pi-reforged: the DBPF package codec (header, index,        *)
(* payload codec), the manifest codec and the merge / unmerge engine.      *)
(*                                                                         *)
(* Numbers are the program's unsigned integers.  A u32 whose bit 31 the    *)
(* code inspects is kept as a record [hi |-> bit 31, lo |-> low 31 bits],  *)
(* and the u64 instance as [hi |-> high 32 bits, lo |-> low 32 bits].      *)
(***************************************************************************)
EXTENDS Integers, Sequences, FiniteSets, TLC

VARIABLES
    header,     \* header spec: the PackageHeader under test
    valid,      \* header spec: <<>>, or <<the value is_valid returned>>
    data,       \* manifest spec: the bytes handed to ManifestResource::from_bytes
    decoded,    \* manifest spec: <<>>, or <<the Result of from_bytes>>
    encoded,    \* manifest spec: <<>>, or <<the bytes to_bytes returned>>
    file,       \* open spec: the file Package::open is called on
    open_pc,    \* open spec: the statement Package::open is at
    capacity,   \* open spec: <<>>, or <<the capacity the entries Vec was allocated with>>
    entries,    \* open spec: the IndexEntry values pushed so far
    opened,     \* open spec: <<>>, or <<the Result Package::open returned>>
    eof_is_error, \* whether the linked deflate reader fails on a stream that ends early
    resource_set, \* package spec: the resource set handed to write_merged
    compress_arg,   \* package spec: the compress argument of write_merged
    written,    \* package spec: <<>>, or <<the file write_merged left>>
    package,        \* package spec: <<>>, or <<the Result of Package::open on it>>
    raw_reads,  \* package spec: the Results of read_raw_resource, in index order
    files_to_process, \* run_merge: the source archives found, [name, file] each
    results,    \* run_merge: per source <<>>, or <<the Result its worker returned>>
    merge_pc,   \* run_merge: "workers", "fold", "finish", "written", "done"
    merged_data,      \* run_merge: the map from TGI to [data, memsize, compression, committed]
    manifest_entries, \* run_merge: the ManifestEntry values pushed so far
    files_processed,  \* run_merge
    files_skipped,    \* run_merge
    merged_package,   \* <<>>, or <<the file at merged/merged.package>>
    merge_ret,  \* <<>>, or <<the Result run_merge returned>>
    unmerge_pc, \* run_unmerge: "idle", "start", "units", "done"
    manifest,   \* run_unmerge: <<>>, or <<the manifest read from the merged archive>>
    unit_results,     \* run_unmerge: per manifest entry <<>>, or <<the Result of its unit>>
    unmerged,   \* the files in the unmerged directory, by file name
    unmerge_ret, \* <<>>, or <<the Result run_unmerge returned>>
    created_dirs,     \* the directories create_dir_all was called on
    keys_order, \* encode spec: the order merged_entries.keys() iterates in
    encode_results,   \* encode spec: per sorted key <<>>, or <<what its worker returned>>
    encode_file,      \* encode spec: <<>>, or <<the file write_merged left>>
    typed_kind, \* typed spec: the res_type handed to TypedResource::from_bytes
    typed_data, \* typed spec: the bytes handed to it
    typed,      \* typed spec: <<>>, or <<the Result it returned>>
    rcol_data,  \* rcol spec: the bytes handed to RcolResource::from_bytes
    rcol_pc,    \* rcol spec: the statement RcolResource::from_bytes is at
    rcol,       \* rcol spec: its locals
    rcol_ret,   \* rcol spec: <<>>, or <<the Result it returned>>
    refpack,    \* refpack spec: the locals of decompress_refpack
    index_rd,   \* index spec: the index block Package::open reads, and its locals
    fanout      \* fan-out spec: the open file handles and the parallel units' locals

hdrVars == <<header, valid>>
manVars == <<data, decoded, encoded>>
openVars == <<file, open_pc, capacity, entries, opened>>
pkgVars == <<eof_is_error, resource_set, compress_arg, written, package, raw_reads>>
mergeVars == <<files_to_process, results, merge_pc, merged_data, manifest_entries,
               files_processed, files_skipped, merged_package, merge_ret>>
unmergeVars == <<unmerge_pc, manifest, unit_results, unmerged, unmerge_ret>>
dirVars == <<created_dirs>>
encVars == <<keys_order, encode_results, encode_file>>
typedVars == <<typed_kind, typed_data, typed>>
rcolVars == <<rcol_data, rcol_pc, rcol, rcol_ret>>
refpackVars == <<refpack>>
indexVars == <<index_rd>>
fanVars == <<fanout>>
otherVars == <<dirVars, encVars, typedVars, rcolVars, refpackVars, indexVars, fanVars>>
vars == <<hdrVars, manVars, openVars, pkgVars, mergeVars, unmergeVars, otherVars>>

\* The variables of a specification that is not the one running.
IdleHeader == header = <<>> /\ valid = <<>>
IdleManifest == data = <<>> /\ decoded = <<>> /\ encoded = <<>>
IdleOpen ==
    file = <<>> /\ open_pc = "idle" /\ capacity = <<>> /\ entries = <<>> /\ opened = <<>>
IdlePackage ==
    /\ eof_is_error = FALSE /\ resource_set = <<>> /\ compress_arg = FALSE
    /\ written = <<>> /\ package = <<>> /\ raw_reads = <<>>
IdleMerge ==
    /\ files_to_process = <<>> /\ results = <<>> /\ merge_pc = "idle"
    /\ merged_data = <<>> /\ manifest_entries = <<>> /\ files_processed = 0
    /\ files_skipped = 0 /\ merged_package = <<>> /\ merge_ret = <<>>
IdleUnmerge ==
    /\ unmerge_pc = "idle" /\ manifest = <<>> /\ unit_results = <<>>
    /\ unmerged = <<>> /\ unmerge_ret = <<>>
IdleDirs == created_dirs = {}
IdleEncode == keys_order = <<>> /\ encode_results = <<>> /\ encode_file = <<>>
IdleTyped == typed_kind = 0 /\ typed_data = <<>> /\ typed = <<>>
IdleRcol == rcol_data = <<>> /\ rcol_pc = "idle" /\ rcol = <<>> /\ rcol_ret = <<>>
IdleRefpack == refpack = <<>>
IdleIndex == index_rd = <<>>
IdleFan == fanout = <<>>
IdleOther == IdleDirs /\ IdleEncode /\ IdleTyped /\ IdleRcol /\ IdleRefpack /\ IdleIndex /\ IdleFan

(***************************************************************************)
(* Bounds of the model.                                                    *)
(***************************************************************************)
MaxVersion == 3
MaxManifestEntries == 2
MaxIndexRecs == 2
MaxPayloadLen == 3
MaxSources == 2

(***************************************************************************)
(* Sequence helpers.  Here and below, CHOOSE y \in {F(x) : x \in {e}} : TRUE *)
(* is F(e), with e evaluated once and bound to x.                          *)
(***************************************************************************)
Range(s) == {s[i] : i \in 1..Len(s)}

RECURSIVE Repeat(_, _)
Repeat(b, n) == IF n = 0 THEN <<>> ELSE <<b>> \o Repeat(b, n - 1)

\* ss[1] \o ... \o ss[n]
RECURSIVE ConcatTo(_, _)
ConcatTo(ss, n) == IF n = 0 THEN <<>> ELSE ConcatTo(ss, n - 1) \o ss[n]

Concat(ss) == CHOOSE c \in {ConcatTo(v, Len(v)) : v \in {ss}} : TRUE

(***************************************************************************)
(* package/header.rs                                                       *)
(***************************************************************************)
\* b"DBPF"
DBPF == <<68, 66, 80, 70>>

\* A mutant of is_valid: accepts every major version from 2 on.
is_valid_any_major(h) == h.magic = DBPF /\ h.major >= 2

is_valid(h) == h.magic = DBPF /\ h.major = 2

(***************************************************************************)
(* Little-endian integers and the resource key.                            *)
(***************************************************************************)
LE32(n) == <<n % 256, (n \div 256) % 256, (n \div 65536) % 256, (n \div 16777216) % 256>>

FromLE32(b) == b[1] + 256 * b[2] + 65536 * b[3] + 16777216 * b[4]

\* The u64 hi * 2^32 + lo.
U64(hi, lo) == [hi |-> hi, lo |-> lo]

LE64(v) == LE32(v.lo) \o LE32(v.hi)

FromLE64(b) == U64(FromLE32(SubSeq(b, 5, 8)), FromLE32(SubSeq(b, 1, 4)))

TGI(t, g, i) == [res_type |-> t, res_group |-> g, instance |-> i]

\* s[pos+1 .. pos+n], pos counting bytes from 0 as a Cursor does.
Take(s, pos, n) == SubSeq(s, pos + 1, pos + n)

Ok(v) == [ok |-> TRUE, val |-> v]
Err(e) == [ok |-> FALSE, err |-> e]

(***************************************************************************)
(* String::from_utf8_lossy: every maximal invalid sequence becomes U+FFFD  *)
(* (EF BF BD); a String is kept as its UTF-8 bytes.                        *)
(***************************************************************************)
IsCont(s, i) == i <= Len(s) /\ s[i] >= 128 /\ s[i] <= 191

In(s, i, lo, up) == i <= Len(s) /\ s[i] >= lo /\ s[i] <= up

\* <<number of bytes of the chunk starting at s[i], whether it is valid>>
Utf8Chunk(s, i) ==
    LET b == s[i] IN
    IF b < 128 THEN <<1, TRUE>>
    ELSE IF b >= 194 /\ b <= 223 THEN
        IF IsCont(s, i + 1) THEN <<2, TRUE>> ELSE <<1, FALSE>>
    ELSE IF b >= 224 /\ b <= 239 THEN
        IF ~ (\/ b = 224 /\ In(s, i + 1, 160, 191)
              \/ b >= 225 /\ b <= 236 /\ In(s, i + 1, 128, 191)
              \/ b = 237 /\ In(s, i + 1, 128, 159)
              \/ b >= 238 /\ In(s, i + 1, 128, 191))
        THEN <<1, FALSE>>
        ELSE IF IsCont(s, i + 2) THEN <<3, TRUE>> ELSE <<2, FALSE>>
    ELSE IF b >= 240 /\ b <= 244 THEN
        IF ~ (\/ b = 240 /\ In(s, i + 1, 144, 191)
              \/ b >= 241 /\ b <= 243 /\ In(s, i + 1, 128, 191)
              \/ b = 244 /\ In(s, i + 1, 128, 143))
        THEN <<1, FALSE>>
        ELSE IF ~ IsCont(s, i + 2) THEN <<2, FALSE>>
        ELSE IF ~ IsCont(s, i + 3) THEN <<3, FALSE>>
        ELSE <<4, TRUE>>
    ELSE <<1, FALSE>>

RECURSIVE Utf8LossyFrom(_, _)
Utf8LossyFrom(s, i) ==
    IF i > Len(s) THEN <<>>
    ELSE LET c == Utf8Chunk(s, i) IN
         (IF c[2] THEN SubSeq(s, i, i + c[1] - 1) ELSE <<239, 191, 189>>)
             \o Utf8LossyFrom(s, i + c[1])

from_utf8_lossy(s) == CHOOSE r \in {Utf8LossyFrom(v, 1) : v \in {s}} : TRUE

(***************************************************************************)
(* package/resource.rs: ManifestTGI, ManifestEntry, ManifestResource       *)
(***************************************************************************)
\* ManifestTGI is written instance, res_type, res_group.
WriteManifestTGI(t) == LE64(t.instance) \o LE32(t.res_type) \o LE32(t.res_group)

ReadManifestTGI(b) ==
    TGI(FromLE32(SubSeq(b, 9, 12)), FromLE32(SubSeq(b, 13, 16)), FromLE64(SubSeq(b, 1, 8)))

\* A mutant of the entry writer: keys in the canonical kind, group, instance order.
WriteManifestEntry_canonical(e) ==
    LE32(Len(e.name)) \o e.name \o LE32(Len(e.resources))
        \o Concat([i \in 1..Len(e.resources) |->
                     LE32(e.resources[i].res_type) \o LE32(e.resources[i].res_group)
                         \o LE64(e.resources[i].instance)])

WriteManifestEntry(e) ==
    LE32(Len(e.name)) \o e.name \o LE32(Len(e.resources))
        \o Concat([i \in 1..Len(e.resources) |-> WriteManifestTGI(e.resources[i])])

\* ManifestResource::to_bytes
to_bytes(m) ==
    LE32(m.version) \o LE64(m.padding) \o LE32(Len(m.entries))
        \o Concat([i \in 1..Len(m.entries) |-> WriteManifestEntry(m.entries[i])])

\* Reads n keys at pos after the keys read so far: [ok, keys, pos].
RECURSIVE ReadKeys(_, _, _, _)
ReadKeys(d, pos, n, keys) ==
    IF n = 0 THEN [ok |-> TRUE, keys |-> keys, pos |-> pos]
    ELSE IF pos + 16 > Len(d) THEN [ok |-> FALSE, keys |-> <<>>, pos |-> pos]
    ELSE ReadKeys(d, pos + 16, n - 1, Append(keys, ReadManifestTGI(Take(d, pos, 16))))

\* Reads one ManifestEntry at pos, the name as the bytes read: [ok, entry, pos].
ReadManifestEntry(d, pos) ==
    LET bad == [ok |-> FALSE, entry |-> <<>>, pos |-> pos] IN
    IF pos + 4 > Len(d) THEN bad
    ELSE LET name_len == FromLE32(Take(d, pos, 4)) IN
    IF pos + 4 + name_len + 4 > Len(d) THEN bad
    ELSE LET name == Take(d, pos + 4, name_len)
             resource_count == FromLE32(Take(d, pos + 4 + name_len, 4))
         IN  CHOOSE res \in
                 { [ok |-> r.ok, entry |-> [name |-> name, resources |-> r.keys],
                    pos |-> r.pos] :
                   r \in {ReadKeys(d, pos + 8 + name_len, resource_count, <<>>)} } : TRUE

\* Reads n entries at pos after the entries read so far: [ok, entries, pos].
RECURSIVE ReadEntries(_, _, _, _)
ReadEntries(d, pos, n, es) ==
    IF n = 0 THEN [ok |-> TRUE, entries |-> es, pos |-> pos]
    ELSE CHOOSE res \in
             { IF ~ e.ok THEN [ok |-> FALSE, entries |-> <<>>, pos |-> pos]
               ELSE ReadEntries(d, e.pos, n - 1, Append(es, e.entry)) :
               e \in {ReadManifestEntry(d, pos)} } : TRUE

\* The binrw reader of ManifestResource before the names are mapped to
\* Strings: [ok, version, padding, entries, pos], pos the cursor at the end.
ReadManifest(d) ==
    LET Read(b) ==
            IF Len(b) < 16
            THEN [ok |-> FALSE, version |-> 0, padding |-> U64(0, 0), entries |-> <<>>,
                  pos |-> 0]
            ELSE CHOOSE res \in
                     { [ok |-> r.ok, version |-> FromLE32(Take(b, 0, 4)),
                        padding |-> FromLE64(Take(b, 4, 8)), entries |-> r.entries,
                        pos |-> r.pos] :
                       r \in {ReadEntries(b, 16, FromLE32(Take(b, 12, 4)), <<>>)} } : TRUE
    IN  CHOOSE res \in {Read(b) : b \in {d}} : TRUE

\* ManifestResource::from_bytes
from_bytes(d) ==
    CHOOSE res \in
        { IF ~ r.ok THEN Err("Failed to read ManifestResource")
          ELSE Ok([version |-> r.version, padding |-> r.padding,
                   entries |-> [i \in 1..Len(r.entries) |->
                                  [name |-> from_utf8_lossy(r.entries[i].name),
                                   resources |-> r.entries[i].resources]]]) :
          r \in {ReadManifest(d)} } : TRUE

(***************************************************************************)
(* package/index.rs and Package::open (package/mod.rs).                    *)
(*                                                                         *)
(* A file is [len, header, index_type, constant_type, constant_group,      *)
(* constant_instance_hi, recs, body]: its length, the header its first 96  *)
(* bytes hold, what stands at header.index_position (the index type, the   *)
(* constant fields its bits announce, the index records), and the payload  *)
(* bytes from offset 96 on.  The index block is the end of the file, so a  *)
(* read past the records the file holds is a read past its end.  An index  *)
(* record holds every field; those a constant replaces are not on disk.    *)
(***************************************************************************)
DeflateMarker == 23106      \* 0x5A42
HeaderSize == 96            \* PackageHeader::SIZE

\* IndexEntry::is_compressed, a mutant: only the deflate marker counts.
is_compressed_marker_only(e) == e.compression = DeflateMarker

is_compressed(e) == e.compression # 0

Bit(n, k) == (n \div (2 ^ k)) % 2

\* Bytes of the constant fields and of one index record under index_type.
ConstWidth(index_type) == 4 * (Bit(index_type, 0) + Bit(index_type, 1) + Bit(index_type, 2))
RecWidth(index_type) == 32 - ConstWidth(index_type)

\* The file offset after the constants and the first n index records.
IndexEnd(f, n) ==
    f.header.index_position + 4 + ConstWidth(f.index_type) + n * RecWidth(f.index_type)

\* A mutant of the sanity check: the count itself against the file length.
IndexCountTooLarge_unscaled(f) == f.header.index_count > f.len

\* header.index_count as u64 * 20 > file_len
IndexCountTooLarge(f) == f.header.index_count * 20 > f.len

\* A mutant of the inference: any size mismatch without a tag counts.
InferCompression_any_mismatch(filesize_raw, memsize, compression) ==
    IF compression = 0 /\ filesize_raw.lo # memsize THEN DeflateMarker ELSE compression

\* The compression field of the loaded entry: filesize_raw is
\* [hi |-> bit 31, lo |-> filesize_raw & 0x7FFFFFFF].
InferCompression(filesize_raw, memsize, compression) ==
    IF filesize_raw.hi # 0 /\ compression = 0 /\ filesize_raw.lo # memsize
    THEN DeflateMarker
    ELSE compression

\* The IndexEntry pushed for the i-th index record.
LoadEntry(f, i) ==
    LET r == f.recs[i]
        res_type == IF Bit(f.index_type, 0) # 0 THEN f.constant_type ELSE r.res_type
        res_group == IF Bit(f.index_type, 1) # 0 THEN f.constant_group ELSE r.res_group
        instance_hi == IF Bit(f.index_type, 2) # 0 THEN f.constant_instance_hi
                       ELSE r.instance_hi
    IN  [tgi |-> TGI(res_type, res_group, U64(instance_hi, r.instance_lo)),
         offset |-> r.offset,
         filesize |-> r.filesize_raw.lo,
         memsize |-> r.memsize,
         compression |-> InferCompression(r.filesize_raw, r.memsize, r.compression),
         committed |-> r.committed]

\* Package::open as a function of the file.
open(path) ==
    LET Open(f) ==
            IF f.len < HeaderSize THEN Err("Failed to read package header")
            ELSE IF ~ is_valid(f.header)
                 THEN Err("Invalid DBPF header or unsupported version")
            ELSE IF f.header.index_position + 4 > f.len
                 THEN Err("failed to fill whole buffer")
            ELSE IF IndexCountTooLarge(f)
                 THEN Err("Invalid package header: index_count too large for file size")
            ELSE IF \/ IndexEnd(f, f.header.index_count) > f.len
                    \/ f.header.index_count > Len(f.recs)
                 THEN Err("failed to fill whole buffer")
            ELSE Ok([header |-> f.header,
                     entries |-> [i \in 1..f.header.index_count |-> LoadEntry(f, i)],
                     file |-> f])
    IN  CHOOSE res \in {Open(f) : f \in {path}} : TRUE

(***************************************************************************)
(* The deflate codec of the flate2 crate (ZlibEncoder, ZlibDecoder).  The  *)
(* crate is no part of the repository; the model keeps what the package    *)
(* code relies on: a stream starts with the bytes 0x78 0x9C, decodes back  *)
(* to what was encoded, is shorter than a payload of long runs and longer  *)
(* than a short one, and a byte string that does not start with the zlib   *)
(* header is rejected.  The body is run-length pairs <<count, byte>> and   *)
(* a 0 that ends the stream.  A stream that ends early is an error or the  *)
(* bytes decoded so far, as the reader of the linked crate has it          *)
(* (eof_is_error).                                                         *)
(***************************************************************************)
RECURSIVE RunLength(_, _)
RunLength(s, i) ==
    IF i < Len(s) /\ s[i + 1] = s[i] THEN 1 + RunLength(s, i + 1) ELSE 1

RECURSIVE RlePairs(_, _)
RlePairs(s, i) ==
    IF i > Len(s) THEN <<>>
    ELSE LET n == RunLength(s, i) IN <<n, s[i]>> \o RlePairs(s, i + n)

\* ZlibEncoder::new(Vec::new(), Compression::default()), write_all, finish
ZlibEncode(raw) ==
    CHOOSE z \in {<<120, 156>> \o RlePairs(b, 1) \o <<0>> : b \in {raw}} : TRUE

\* The decoding of the pairs from position i on, out the bytes decoded so
\* far: [ended, out].
RECURSIVE RleDecode(_, _, _)
RleDecode(s, i, out) ==
    IF i > Len(s) THEN [ended |-> FALSE, out |-> out]
    ELSE IF s[i] = 0 THEN [ended |-> TRUE, out |-> out]
    ELSE IF i + 1 > Len(s) THEN [ended |-> FALSE, out |-> out]
    ELSE RleDecode(s, i + 2, out \o Repeat(s[i + 1], s[i]))

\* ZlibDecoder::new(buf).read_to_end
ZlibDecode(buf) ==
    LET Decode(b) ==
            IF Len(b) < 2
            THEN IF eof_is_error THEN Err("Failed to decompress resource data (Zlib)")
                 ELSE Ok(<<>>)
            ELSE IF b[1] # 120 \/ b[2] # 156
            THEN Err("Failed to decompress resource data (Zlib)")
            ELSE CHOOSE res \in
                     { IF r.ended \/ ~ eof_is_error THEN Ok(r.out)
                       ELSE Err("Failed to decompress resource data (Zlib)") :
                       r \in {RleDecode(b, 3, <<>>)} } : TRUE
    IN  CHOOSE res \in {Decode(b) : b \in {buf}} : TRUE

(***************************************************************************)
(* decompress_refpack, copy_plain, copy_ref (package/mod.rs).  The output  *)
(* buffer is kept as the bytes written so far (w_pos is their number);     *)
(* the bytes after them are the zeros it was allocated with.               *)
(***************************************************************************)
\* [ok, r_pos, out]
copy_plain(src, r_pos, out, memsize, count) ==
    IF r_pos + count > Len(src) \/ Len(out) + count > memsize
    THEN [ok |-> FALSE, r_pos |-> r_pos, out |-> out]
    ELSE [ok |-> TRUE, r_pos |-> r_pos + count, out |-> out \o Take(src, r_pos, count)]

\* A block copy out of the zero-filled buffer: positions not yet written
\* read as 0.
CopyBytes_memmove(out, count, offset) ==
    out \o [i \in 1..count |->
              IF Len(out) - offset + i <= Len(out) THEN out[Len(out) - offset + i] ELSE 0]

RECURSIVE CopyBytes(_, _, _)
CopyBytes(out, count, offset) ==
    IF count = 0 THEN out
    ELSE CopyBytes(Append(out, out[Len(out) + 1 - offset]), count - 1, offset)

\* [ok, out]
copy_ref_lenient(out, memsize, count, offset) ==
    IF Len(out) + count > memsize
    THEN [ok |-> FALSE, out |-> out]
    ELSE IF offset > Len(out) THEN [ok |-> TRUE, out |-> out]
    ELSE [ok |-> TRUE, out |-> CopyBytes(out, count, offset)]

\* [ok, out]
copy_ref(out, memsize, count, offset) ==
    IF offset > Len(out) \/ Len(out) + count > memsize
    THEN [ok |-> FALSE, out |-> out]
    ELSE [ok |-> TRUE, out |-> CopyBytes(out, count, offset)]

\* The bytes decoded so far returned without the rest of the buffer.
RefPackDone_unpadded(out, memsize) == Ok(out)

RefPackDone(out, memsize) == Ok(out \o Repeat(0, memsize - Len(out)))

\* The plain copy and then the reference copy of one opcode: [ok, r_pos, out].
PlainThenRef(d, r_pos, out, memsize, num_plain, num_copy, copy_offset) ==
    LET p == copy_plain(d, r_pos, out, memsize, num_plain) IN
    IF ~ p.ok THEN p
    ELSE LET c == copy_ref(p.out, memsize, num_copy, copy_offset) IN
         [ok |-> c.ok, r_pos |-> p.r_pos, out |-> c.out]

RECURSIVE RefPackLoop(_, _, _, _)

\* After the copies of one opcode, step their result: the next iteration,
\* or the error.
RefPackNext(d, memsize, step) ==
    CHOOSE res \in
        { IF s.ok THEN RefPackLoop(d, memsize, s.r_pos, s.out)
          ELSE Err("RefPack: copy out of bounds") : s \in {step} } : TRUE

\* The while loop; r_pos counts from 0, d[r_pos + 1] is data[r_pos].
RefPackLoop(d, memsize, r_pos, out) ==
    IF ~ (Len(out) < memsize /\ r_pos < Len(d)) THEN RefPackDone(out, memsize)
    ELSE
    LET byte0 == d[r_pos + 1]
        r1 == r_pos + 1
    IN
    IF byte0 <= 127 THEN
        IF r1 >= Len(d) THEN RefPackDone(out, memsize)
        ELSE LET byte1 == d[r1 + 1]
                 s == PlainThenRef(d, r1 + 1, out, memsize,
                                   byte0 % 4,
                                   ((byte0 \div 4) % 8) + 3,
                                   ((byte0 \div 32) % 4) * 256 + byte1 + 1)
             IN  RefPackNext(d, memsize, s)
    ELSE IF byte0 <= 191 THEN
        IF r1 + 1 >= Len(d) THEN RefPackDone(out, memsize)
        ELSE LET byte1 == d[r1 + 1]
                 byte2 == d[r1 + 2]
                 s == PlainThenRef(d, r1 + 2, out, memsize,
                                   byte1 \div 64,
                                   (byte0 % 64) + 4,
                                   (byte1 % 64) * 256 + byte2 + 1)
             IN  RefPackNext(d, memsize, s)
    ELSE IF byte0 <= 223 THEN
        IF r1 + 2 >= Len(d) THEN RefPackDone(out, memsize)
        ELSE LET byte1 == d[r1 + 1]
                 byte2 == d[r1 + 2]
                 byte3 == d[r1 + 3]
                 s == PlainThenRef(d, r1 + 3, out, memsize,
                                   byte0 % 4,
                                   ((byte0 \div 4) % 4) * 256 + byte3 + 5,
                                   ((byte0 \div 16) % 2) * 65536 + byte1 * 256 + byte2 + 1)
             IN  RefPackNext(d, memsize, s)
    ELSE IF byte0 <= 251 THEN
        RefPackNext(d, memsize, copy_plain(d, r1, out, memsize, (byte0 % 32) * 4 + 4))
    ELSE
        RefPackNext(d, memsize, copy_plain(d, r1, out, memsize, byte0 % 4))

decompress_refpack(data_in, memsize) ==
    LET Decompress(d) ==
            IF Len(d) < 2 THEN Err("RefPack data too short")
            ELSE IF d[2] # 251 THEN Err("Invalid RefPack signature")
            ELSE LET size_bytes == IF d[1] >= 128 THEN 3 ELSE 4 IN
                 IF 2 + size_bytes > Len(d)
                 THEN Err("RefPack data too short for size header")
                 ELSE RefPackLoop(d, memsize, 2 + size_bytes, <<>>)
    IN  CHOOSE res \in {Decompress(d) : d \in {data_in}} : TRUE

(***************************************************************************)
(* Package::read_raw_resource, read_resource, write_merged                 *)
(***************************************************************************)
\* file.seek(offset); file.read_exact(buf) for a range of payload bytes
ReadExact(f, offset, n) ==
    IF offset + n > f.len THEN Err("failed to fill whole buffer")
    ELSE Ok(Take(f.body, offset - HeaderSize, n))

read_raw_resource_first_byte(pkg, entry) ==
    CHOOSE res \in
        { IF ~ buf.ok THEN buf
          ELSE IF is_compressed(entry) THEN
              IF Len(buf.val) >= 2 /\ buf.val[1] = 251
              THEN decompress_refpack(buf.val, entry.memsize)
              ELSE ZlibDecode(buf.val)
          ELSE buf :
          buf \in {ReadExact(pkg.file, entry.offset, entry.filesize)} } : TRUE
read_raw_resource(pkg, entry) ==
    CHOOSE res \in
        { IF ~ buf.ok THEN buf
          ELSE IF is_compressed(entry) THEN
              IF Len(buf.val) >= 2 /\ buf.val[2] = 251
              THEN decompress_refpack(buf.val, entry.memsize)
              ELSE ZlibDecode(buf.val)
          ELSE buf :
          buf \in {ReadExact(pkg.file, entry.offset, entry.filesize)} } : TRUE

ManifestKind == 2142678410      \* 0x7FB6AD8A
ManifestKindAlt == 1944665835   \* 0x73E93EEB

IsManifestKind(t) == t = ManifestKind \/ t = ManifestKindAlt

\* Package::read_resource of an entry of a manifest kind:
\* TypedResource::from_bytes dispatches it to ManifestResource::from_bytes.
read_resource(pkg, entry) ==
    CHOOSE res \in
        { IF ~ d.ok THEN d ELSE from_bytes(d.val) :
          d \in {read_raw_resource(pkg, entry)} } : TRUE

\* (a.res_type, a.res_group, a.instance) < (b.res_type, b.res_group, b.instance)
TupleLess(a, b) ==
    \/ a.res_type < b.res_type
    \/ a.res_type = b.res_type /\ a.res_group < b.res_group
    \/ /\ a.res_type = b.res_type /\ a.res_group = b.res_group
       /\ \/ a.instance.hi < b.instance.hi
          \/ a.instance.hi = b.instance.hi /\ a.instance.lo < b.instance.lo

\* The comparator of sorted_keys.sort_by: Ordering::Less
SortsBefore_plain(a, b) == TupleLess(a, b)
SortsBefore(a, b) ==
    LET a_is_manifest == a.res_type = ManifestKind
        b_is_manifest == b.res_type = ManifestKind
    IN  IF a_is_manifest /\ ~ b_is_manifest THEN TRUE
        ELSE IF ~ a_is_manifest /\ b_is_manifest THEN FALSE
        ELSE TupleLess(a, b)

RECURSIVE SortKeys(_)
SortKeys(keys) ==
    IF keys = {} THEN <<>>
    ELSE CHOOSE sorted \in
             { <<k>> \o SortKeys(keys \ {k}) :
               k \in {CHOOSE x \in keys : \A y \in keys \ {x} : SortsBefore(x, y)} } : TRUE

\* The closure of the parallel map: <<final_data, final_compression>>.
\* The deflated form kept whatever its length.
EncodePayload_always_deflated(raw_data, compression_flag, compress) ==
    IF compress \/ compression_flag # 0 THEN
        IF Len(raw_data) >= 2 /\ (raw_data[1] = 120 \/ raw_data[2] = 251)
        THEN <<raw_data, DeflateMarker>>
        ELSE <<ZlibEncode(raw_data), DeflateMarker>>
    ELSE <<raw_data, 0>>

EncodePayload(raw_data, compression_flag, compress) ==
    IF compress \/ compression_flag # 0 THEN
        LET is_already_compressed ==
                Len(raw_data) >= 2 /\ (raw_data[1] = 120 \/ raw_data[2] = 251)
        IN  IF is_already_compressed THEN <<raw_data, DeflateMarker>>
            ELSE CHOOSE res \in
                     { IF Len(compressed) < Len(raw_data) THEN <<compressed, DeflateMarker>>
                       ELSE <<raw_data, DeflateMarker>> :
                       compressed \in {ZlibEncode(raw_data)} } : TRUE
    ELSE <<raw_data, 0>>

\* PackageHeader::default()
DefaultHeader ==
    [magic |-> <<0, 0, 0, 0>>, major |-> 0, minor |-> 0, index_version |-> 0,
     index_count |-> 0, unused4 |-> 0, index_size |-> 0, unused5_2 |-> 0,
     index_position |-> 0]

\* processed_entries: the encoded payloads in sorted order
ProcessedEntries(merged_entries, compress) ==
    CHOOSE pe \in
        { [i \in 1..Len(sorted_keys) |->
             CHOOSE processed \in
                 { [tgi |-> sorted_keys[i], final_data |-> p[1], memsize |-> e.memsize,
                    final_compression |-> p[2], committed |-> e.committed] :
                   e \in {merged_entries[sorted_keys[i]]},
                   p \in {EncodePayload(merged_entries[sorted_keys[i]].data,
                                        merged_entries[sorted_keys[i]].compression,
                                        compress)} } : TRUE] :
          sorted_keys \in {SortKeys(DOMAIN merged_entries)} } : TRUE

\* The offsets advanced by the memory size instead of the stored size.
RECURSIVE SumLen_memsize(_, _)
SumLen_memsize(pe, n) == IF n = 0 THEN 0 ELSE pe[n].memsize + SumLen_memsize(pe, n - 1)

RECURSIVE SumLen(_, _)
SumLen(pe, n) == IF n = 0 THEN 0 ELSE Len(pe[n].final_data) + SumLen(pe, n - 1)

\* The file that holds the payloads pe, body their concatenation.
WrittenFile(merged_entries, pe, body) ==
    LET index_position == HeaderSize + Len(body)
        index_size == 4 + 32 * Len(pe)
    IN  [len |-> index_position + index_size,
         header |-> [DefaultHeader EXCEPT
                        !.magic = DBPF, !.major = 2, !.minor = 1, !.index_version = 0,
                        !.index_count = Cardinality(DOMAIN merged_entries),
                        !.index_size = 0, !.unused5_2 = 3,
                        !.index_position = index_position, !.unused4 = index_size],
         index_type |-> 0, constant_type |-> 0, constant_group |-> 0,
         constant_instance_hi |-> 0,
         recs |-> [i \in 1..Len(pe) |->
                    [res_type |-> pe[i].tgi.res_type,
                     res_group |-> pe[i].tgi.res_group,
                     instance_hi |-> pe[i].tgi.instance.hi,
                     instance_lo |-> pe[i].tgi.instance.lo,
                     offset |-> HeaderSize + SumLen(pe, i - 1),
                     filesize_raw |-> [hi |-> IF pe[i].final_compression # 0 THEN 1 ELSE 0,
                                       lo |-> Len(pe[i].final_data)],
                     memsize |-> pe[i].memsize,
                     compression |-> IF pe[i].final_compression # 0 THEN DeflateMarker
                                     ELSE 0,
                     committed |-> pe[i].committed]],
         body |-> body]

\* The file Package::write_merged leaves at output_path.
write_merged(merged_entries, compress) ==
    CHOOSE f \in
        { CHOOSE g \in
              { WrittenFile(merged_entries, pe, body) :
                body \in {Concat([i \in 1..Len(pe) |-> pe[i].final_data])} } : TRUE :
          pe \in {ProcessedEntries(merged_entries, compress)} } : TRUE

(***************************************************************************)
(* main.rs: run_merge and run_unmerge                                      *)
(***************************************************************************)
\* HashMap::insert
Insert(map, k, v) ==
    CHOOSE res \in
        { [x \in (DOMAIN m) \cup {k} |-> IF x = k THEN v ELSE m[x]] : m \in {map} } : TRUE

\* A mutant of the manifest-kind test of run_merge: the primary kind only.
IsManifestKindEntry_primary_only(entry) == entry.tgi.res_type = ManifestKind

\* entry.tgi.res_type == 0x7FB6AD8A || entry.tgi.res_type == 0x73E93EEB
IsManifestKindEntry(entry) == IsManifestKind(entry.tgi.res_type)

\* The lists of a worker after it has read entry with the bytes d.
\* The key put in front of the keys pushed before it.
Pushed_front(acc, entry, d) ==
    [pkg_resources |-> <<entry.tgi>> \o acc.pkg_resources,
     pkg_data |-> Append(acc.pkg_data,
                         <<entry.tgi, [data |-> d, memsize |-> entry.memsize,
                                       compression |-> entry.compression,
                                       committed |-> entry.committed]>>)]

Pushed(acc, entry, d) ==
    [pkg_resources |-> Append(acc.pkg_resources, entry.tgi),
     pkg_data |-> Append(acc.pkg_data,
                         <<entry.tgi, [data |-> d, memsize |-> entry.memsize,
                                       compression |-> entry.compression,
                                       committed |-> entry.committed]>>)]

\* A mutant of the loop over a source's entries: a resource that fails to
\* read is left out and the loop goes on.
RECURSIVE ReadSourceEntries_skipping(_, _, _)
ReadSourceEntries_skipping(pkg, i, acc) ==
    IF i > Len(pkg.entries) THEN Ok(acc)
    ELSE IF IsManifestKindEntry(pkg.entries[i])
         THEN ReadSourceEntries_skipping(pkg, i + 1, acc)
    ELSE CHOOSE res \in
             { ReadSourceEntries_skipping(pkg, i + 1, next) :
               next \in { CHOOSE a \in
                              { IF ~ d.ok THEN acc ELSE Pushed(acc, pkg.entries[i], d.val) :
                                d \in {read_raw_resource(pkg, pkg.entries[i])} } : TRUE } }
             : TRUE

\* The loop over a source's entries from the i-th on: Ok([pkg_resources,
\* pkg_data]) or the error of the first read that fails.
RECURSIVE ReadSourceEntries(_, _, _)
ReadSourceEntries(pkg, i, acc) ==
    IF i > Len(pkg.entries) THEN Ok(acc)
    ELSE IF IsManifestKindEntry(pkg.entries[i]) THEN ReadSourceEntries(pkg, i + 1, acc)
    ELSE CHOOSE res \in
             { IF ~ d.ok THEN d
               ELSE CHOOSE r \in
                        { ReadSourceEntries(pkg, i + 1, next) :
                          next \in {Pushed(acc, pkg.entries[i], d.val)} } : TRUE :
               d \in {read_raw_resource(pkg, pkg.entries[i])} } : TRUE

\* The closure of the parallel map of run_merge on one path, [stem, file]:
\* Ok([filename, pkg_resources, pkg_data]) or the error.
ProcessSource(path) ==
    CHOOSE res \in
        { IF ~ pkg.ok THEN pkg
          ELSE CHOOSE collected \in
                   { IF ~ r.ok THEN r
                     ELSE Ok([filename |-> from_utf8_lossy(path.stem),
                              pkg_resources |-> r.val.pkg_resources,
                              pkg_data |-> r.val.pkg_data]) :
                     r \in {ReadSourceEntries(pkg.val, 1, [pkg_resources |-> <<>>,
                                                           pkg_data |-> <<>>])} } : TRUE :
          pkg \in {open(path.file)} } : TRUE

\* for (tgi, data) in pkg_data { merged_data.insert(tgi, data); }
RECURSIVE InsertAll(_, _)
InsertAll(m, pkg_data) ==
    IF pkg_data = <<>> THEN m
    ELSE InsertAll(Insert(m, Head(pkg_data)[1], Head(pkg_data)[2]), Tail(pkg_data))

\* manifest_tgi
ManifestTgi == TGI(ManifestKind, 0, U64(0, 0))

\* ".package"
DotPackage == <<46, 112, 97, 99, 107, 97, 103, 101>>

\* str::to_lowercase, on ASCII
to_lowercase(s) == [i \in 1..Len(s) |-> IF s[i] >= 65 /\ s[i] <= 90 THEN s[i] + 32 ELSE s[i]]

ends_with(s, suffix) ==
    Len(s) >= Len(suffix) /\ SubSeq(s, Len(s) - Len(suffix) + 1, Len(s)) = suffix

\* The file name a unit of run_unmerge writes.
UnitFilename(name) ==
    IF ends_with(to_lowercase(name), DotPackage) THEN name ELSE name \o DotPackage

\* entries.iter().find(pred), hits the indices where pred holds: <<>> or
\* <<the first entry>>
Find(es, hits) ==
    IF hits = {} THEN <<>>
    ELSE <<es[CHOOSE i \in hits : \A j \in hits : i <= j]>>

\* pkg_thread.entries.iter().find(|e| e.tgi == *tgi).cloned()
ListedEntry_first(pkg_thread, tgi) ==
    Find(pkg_thread.entries, 1..Len(pkg_thread.entries))
ListedEntry(pkg_thread, tgi) ==
    Find(pkg_thread.entries,
         {n \in 1..Len(pkg_thread.entries) : pkg_thread.entries[n].tgi = tgi})

\* The loop of a unit over entry.resources from the i-th on: Ok(the
\* sub_package_data map) or the error of the first read that fails.
RECURSIVE CollectUnit(_, _, _, _)
CollectUnit(pkg_thread, resources, i, sub_package_data) ==
    IF i > Len(resources) THEN Ok(sub_package_data)
    ELSE CHOOSE res \in
             { IF pkg_entry = <<>>
               THEN CollectUnit(pkg_thread, resources, i + 1, sub_package_data)
               ELSE CHOOSE r \in
                        { IF ~ d.ok THEN d
                          ELSE CHOOSE c \in
                                   { CollectUnit(pkg_thread, resources, i + 1, next) :
                                     next \in {Insert(sub_package_data, resources[i],
                                         [data |-> d.val, memsize |-> pkg_entry[1].memsize,
                                          compression |-> pkg_entry[1].compression,
                                          committed |-> pkg_entry[1].committed])} } : TRUE :
                          d \in {read_raw_resource(pkg_thread, pkg_entry[1])} } : TRUE :
               pkg_entry \in {ListedEntry(pkg_thread, resources[i])} } : TRUE

\* The closure of try_for_each of run_unmerge on one manifest entry:
\* Ok([filename, file]), the file written, or the error.
ExtractUnit(merged, entry) ==
    CHOOSE res \in
        { IF ~ pkg_thread.ok THEN pkg_thread
          ELSE CHOOSE unit \in
                   { IF ~ r.ok THEN r
                     ELSE Ok([filename |-> UnitFilename(entry.name),
                              file |-> write_merged(r.val, FALSE)]) :
                     r \in {CollectUnit(pkg_thread.val, entry.resources, 1, <<>>)} } : TRUE :
          pkg_thread \in {open(merged)} } : TRUE

(***************************************************************************)
(* The header specification: is_valid on headers of every shape.           *)
(***************************************************************************)
Magics == {DBPF, <<68, 66, 80, 71>>, <<100, 98, 112, 102>>, <<70, 80, 66, 68>>}

Headers ==
    [magic : Magics, major : 0..MaxVersion, minor : 0..MaxVersion,
     index_version : {0, 3}, index_count : {0, 1}, index_position : {0, 96}]

InitHeader ==
    /\ header \in Headers /\ valid = <<>> /\ IdleManifest /\ IdleOpen /\ IdlePackage
    /\ IdleMerge /\ IdleUnmerge /\ IdleOther

IsValid ==
    /\ valid = <<>>
    /\ valid' = <<is_valid(header)>>
    /\ UNCHANGED <<header, manVars, openVars, pkgVars, mergeVars, unmergeVars, otherVars>>

SpecHeader == InitHeader /\ [][IsValid]_vars

\* C5: is_valid is true iff the magic is "DBPF" and major is 2; no other
\* field of the header changes the result.
C5_IsValidIff ==
    valid # <<>> =>
        /\ valid[1] = (header.magic = DBPF /\ header.major = 2)
        /\ \A h \in Headers :
               (h.magic = header.magic /\ h.major = header.major)
                   => is_valid(h) = valid[1]

C5_Witness ==
    /\ valid = <<TRUE>>
    /\ header.minor # 1
    /\ header.index_version # 0

(***************************************************************************)
(* The manifest specification: from_bytes, then to_bytes of its result,    *)
(* over byte strings that hold a manifest, exactly, with a byte after it,  *)
(* cut short, or with an entry count one too large.                        *)
(***************************************************************************)
Key1 == TGI(1, 0, U64(0, 1))
Key2 == TGI(2, 5, U64(3, 4))

\* "", "a", an invalid byte, "é", a lead byte with nothing after it, U+FFFD
NameBytes == {<<>>, <<97>>, <<255>>, <<195, 169>>, <<195>>, <<239, 191, 189>>}

KeyLists == {<<>>, <<Key1>>, <<Key2, Key1>>}

RawEntries == [name : NameBytes, resources : KeyLists]

RawManifests ==
    [version : {1}, padding : {U64(0, 0), U64(7, 9)},
     entries : UNION {[1..n -> RawEntries] : n \in 0..MaxManifestEntries}]

ManifestInputs ==
    UNION {LET b == to_bytes(m) IN
           {b, b \o <<0>>, SubSeq(b, 1, Len(b) - 1),
            [b EXCEPT ![13] = @ + 1]} : m \in RawManifests}

InitManifest ==
    /\ data \in ManifestInputs
    /\ decoded = <<>>
    /\ encoded = <<>>
    /\ IdleHeader
    /\ IdleOpen
    /\ IdlePackage
    /\ IdleMerge
    /\ IdleUnmerge
    /\ IdleOther

FromBytes ==
    /\ decoded = <<>>
    /\ decoded' = <<from_bytes(data)>>
    /\ UNCHANGED <<data, encoded, hdrVars, openVars, pkgVars, mergeVars, unmergeVars, otherVars>>

ToBytes ==
    /\ decoded # <<>>
    /\ decoded[1].ok
    /\ encoded = <<>>
    /\ encoded' = <<to_bytes(decoded[1].val)>>
    /\ UNCHANGED <<data, decoded, hdrVars, openVars, pkgVars, mergeVars, unmergeVars, otherVars>>

SpecManifest == InitManifest /\ [][FromBytes \/ ToBytes]_vars

\* The names the reader found in data are valid UTF-8 and data ends where
\* the last entry ends.
CleanManifestBytes(d) ==
    LET r == ReadManifest(d) IN
    /\ r.ok
    /\ r.pos = Len(d)
    /\ \A i \in 1..Len(r.entries) :
           from_utf8_lossy(r.entries[i].name) = r.entries[i].name

\* C4 as claimed: to_bytes of whatever from_bytes decoded reproduces the input.
C4_RoundTripAll == encoded # <<>> => encoded[1] = data

\* C4, amended: to_bytes of what from_bytes decoded reproduces the input
\* when the input ends with its last entry and its names are valid UTF-8.
C4_RoundTripClean ==
    (encoded # <<>> /\ CleanManifestBytes(data)) => encoded[1] = data

C4_Witness ==
    /\ encoded # <<>>
    /\ CleanManifestBytes(data)
    /\ Len(decoded[1].val.entries) = 2
    /\ Len(decoded[1].val.entries[1].resources) # Len(decoded[1].val.entries[2].resources)
    /\ decoded[1].val.entries[1].name = <<195, 169>>

(***************************************************************************)
(* The open specification: Package::open statement by statement, on files  *)
(* whose header may be invalid, whose index_count may exceed the records   *)
(* present, and whose end may cut the index short.                         *)
(***************************************************************************)
FsRaw(hi, lo) == [hi |-> hi, lo |-> lo]

Rec(t, ilo, fsraw, memsize, compression) ==
    [res_type |-> t, res_group |-> 0, instance_hi |-> 0, instance_lo |-> ilo,
     offset |-> HeaderSize, filesize_raw |-> fsraw, memsize |-> memsize,
     compression |-> compression, committed |-> 1]

RecChoices ==
    { Rec(1, 1, FsRaw(0, 4), 4, 0),              \* stored as is
      Rec(2, 2, FsRaw(1, 3), 6, DeflateMarker),  \* tagged
      Rec(3, 3, FsRaw(1, 3), 6, 0),              \* high bit, no tag, sizes differ
      Rec(4, 4, FsRaw(0, 3), 6, 0),              \* no high bit, no tag, sizes differ
      Rec(5, 5, FsRaw(1, 4), 4, 0),              \* high bit, no tag, sizes equal
      Rec(6, 6, FsRaw(0, 4), 4, 65535) }         \* another nonzero tag

OpenHeader(magic, major, index_count) ==
    [magic |-> magic, major |-> major, minor |-> 1, index_version |-> 0,
     index_count |-> index_count, index_position |-> HeaderSize]

\* The file that holds the index records rs under index type it, its last
\* 5 bytes missing when cut.
OpenFile(h, it, rs, cut) ==
    LET end == IndexEnd([header |-> h, index_type |-> it], Len(rs)) IN
    [len |-> IF cut THEN end - 5 ELSE end,
     header |-> h, index_type |-> it, constant_type |-> 7, constant_group |-> 8,
     constant_instance_hi |-> 9, recs |-> rs, body |-> <<>>]

RecLists == UNION {[1..n -> RecChoices] : n \in 0..MaxIndexRecs}

OpenFiles ==
    { OpenFile(OpenHeader(DBPF, 2, n), it, rs, cut) :
        n \in (0..(MaxIndexRecs + 1)) \cup {9, 100000000},
        it \in {0, 1, 2, 4, 7}, rs \in RecLists, cut \in BOOLEAN }
    \cup { OpenFile(OpenHeader(DBPF, 3, 0), 0, <<>>, FALSE),
           OpenFile(OpenHeader(<<68, 66, 80, 71>>, 2, 0), 0, <<>>, FALSE),
           [OpenFile(OpenHeader(DBPF, 2, 0), 0, <<>>, FALSE) EXCEPT !.len = 50],
           [OpenFile(OpenHeader(DBPF, 2, 0), 0, <<>>, FALSE) EXCEPT !.len = 98] }

InitOpen ==
    /\ file \in OpenFiles
    /\ open_pc = "header"
    /\ capacity = <<>>
    /\ entries = <<>>
    /\ opened = <<>>
    /\ IdleHeader
    /\ IdleManifest
    /\ IdlePackage
    /\ IdleMerge
    /\ IdleUnmerge
    /\ IdleOther

OpenFail(e) ==
    /\ opened' = <<Err(e)>>
    /\ open_pc' = "done"
    /\ UNCHANGED <<capacity, entries>>

OpenGoto(pc) == open_pc' = pc /\ UNCHANGED <<capacity, entries, opened>>

\* PackageHeader::read and header.is_valid()
OpenReadHeader ==
    /\ open_pc = "header"
    /\ IF file.len < HeaderSize THEN OpenFail("Failed to read package header")
       ELSE IF ~ is_valid(file.header)
            THEN OpenFail("Invalid DBPF header or unsupported version")
       ELSE OpenGoto("index_type")
    /\ UNCHANGED <<file, hdrVars, manVars, pkgVars, mergeVars, unmergeVars, otherVars>>

\* seek to index_position, read_exact of the 4-byte index type
OpenReadIndexType ==
    /\ open_pc = "index_type"
    /\ IF file.header.index_position + 4 > file.len
       THEN OpenFail("failed to fill whole buffer")
       ELSE OpenGoto("sanity")
    /\ UNCHANGED <<file, hdrVars, manVars, pkgVars, mergeVars, unmergeVars, otherVars>>

\* the sanity check of index_count against the file length
OpenSanityCheck ==
    /\ open_pc = "sanity"
    /\ IF IndexCountTooLarge(file)
       THEN OpenFail("Invalid package header: index_count too large for file size")
       ELSE OpenGoto("allocate")
    /\ UNCHANGED <<file, hdrVars, manVars, pkgVars, mergeVars, unmergeVars, otherVars>>

\* Vec::with_capacity(header.index_count)
OpenAllocate ==
    /\ open_pc = "allocate"
    /\ capacity' = <<file.header.index_count>>
    /\ open_pc' = "constants"
    /\ UNCHANGED <<file, entries, opened, hdrVars, manVars, pkgVars, mergeVars, unmergeVars, otherVars>>

\* the constant fields the index type announces
OpenReadConstants ==
    /\ open_pc = "constants"
    /\ IF IndexEnd(file, 0) > file.len THEN OpenFail("failed to fill whole buffer")
       ELSE OpenGoto("entries")
    /\ UNCHANGED <<file, hdrVars, manVars, pkgVars, mergeVars, unmergeVars, otherVars>>

\* one turn of the loop over 0..index_count, or its end
OpenReadEntry ==
    /\ open_pc = "entries"
    /\ IF Len(entries) = file.header.index_count
       THEN /\ opened' = <<Ok([header |-> file.header, entries |-> entries, file |-> file])>>
            /\ open_pc' = "done"
            /\ UNCHANGED <<capacity, entries>>
       ELSE IF IndexEnd(file, Len(entries) + 1) > file.len \/ Len(entries) >= Len(file.recs)
            THEN OpenFail("failed to fill whole buffer")
       ELSE /\ entries' = Append(entries, LoadEntry(file, Len(entries) + 1))
            /\ UNCHANGED <<open_pc, capacity, opened>>
    /\ UNCHANGED <<file, hdrVars, manVars, pkgVars, mergeVars, unmergeVars, otherVars>>

NextOpen ==
    \/ OpenReadHeader
    \/ OpenReadIndexType
    \/ OpenSanityCheck
    \/ OpenAllocate
    \/ OpenReadConstants
    \/ OpenReadEntry

SpecOpen == InitOpen /\ [][NextOpen]_vars

\* The statement-by-statement run returns what open(file) is.
OpenAgrees == opened # <<>> => opened[1] = open(file)

\* C6: when index_count * 20 exceeds the file length, open returns an error,
\* and neither allocates the entries Vec nor reads an index entry first.
C6_SanityBeforeAllocation ==
    file.header.index_count * 20 > file.len =>
        /\ capacity = <<>>
        /\ entries = <<>>
        /\ open_pc = "done" => ~ opened[1].ok

C6_Witness ==
    /\ open_pc = "done"
    /\ file.header.index_count * 20 > file.len
    /\ file.header.index_count = 9
    /\ opened[1] = Err("Invalid package header: index_count too large for file size")

\* The on-disk records the entries pushed so far were loaded from.
LoadedRecs == [i \in 1..Len(entries) |-> file.recs[i]]

\* C7: is_compressed is compression # 0, and a record with the high bit of
\* stored_size set, tag 0 and masked stored_size # memory_size is loaded
\* with tag 0x5A42 and filesize the masked stored_size.
C7_HighBitInference ==
    \A i \in 1..Len(entries) :
        /\ is_compressed(entries[i]) = (entries[i].compression # 0)
        /\ (/\ LoadedRecs[i].filesize_raw.hi = 1
            /\ LoadedRecs[i].compression = 0
            /\ LoadedRecs[i].filesize_raw.lo # LoadedRecs[i].memsize)
           => /\ entries[i].compression = 23106
              /\ entries[i].filesize = LoadedRecs[i].filesize_raw.lo
              /\ is_compressed(entries[i])

C7_Witness ==
    /\ open_pc = "done"
    /\ opened[1].ok
    /\ \E i \in 1..Len(entries) :
           /\ LoadedRecs[i].filesize_raw = FsRaw(1, 3)
           /\ LoadedRecs[i].compression = 0
           /\ entries[i].compression = 23106

\* C8 as claimed: every record with tag 0 and stored size # memory size is
\* loaded with the deflate marker, whatever the high bit of stored_size.
C8_AnyMismatchInferred ==
    \A i \in 1..Len(entries) :
        (LoadedRecs[i].compression = 0
            /\ LoadedRecs[i].filesize_raw.lo # LoadedRecs[i].memsize)
        => entries[i].compression = DeflateMarker

\* C8, amended: a record with tag 0 and stored size # memory size is loaded
\* with the deflate marker when the high bit of stored_size is set, and
\* with tag 0 when it is clear.
C8_MismatchInferredOnHighBit ==
    \A i \in 1..Len(entries) :
        (LoadedRecs[i].compression = 0
            /\ LoadedRecs[i].filesize_raw.lo # LoadedRecs[i].memsize)
        => entries[i].compression =
               (IF LoadedRecs[i].filesize_raw.hi = 1 THEN DeflateMarker ELSE 0)

C8_Witness ==
    /\ open_pc = "done"
    /\ opened[1].ok
    /\ \E i, j \in 1..Len(entries) :
           /\ LoadedRecs[i].compression = 0 /\ LoadedRecs[j].compression = 0
           /\ LoadedRecs[i].filesize_raw = FsRaw(0, 3) /\ LoadedRecs[i].memsize = 6
           /\ LoadedRecs[j].filesize_raw = FsRaw(1, 3) /\ LoadedRecs[j].memsize = 6
           /\ entries[i].compression = 0
           /\ entries[j].compression = DeflateMarker

(***************************************************************************)
(* The package specification: write_merged of a resource set, Package::open *)
(* of the file it left, read_raw_resource of every entry.                  *)
(***************************************************************************)
RECURSIVE SeqsUpTo(_, _)
SeqsUpTo(S, n) ==
    IF n = 0 THEN {<<>>}
    ELSE LET shorter == SeqsUpTo(S, n - 1) IN
         shorter \cup {Append(q, x) : q \in {r \in shorter : Len(r) = n - 1}, x \in S}

\* 'A', 'x' (0x78), 0xFB
PayloadBytes == {65, 120, 251}

\* Every short payload, and longer ones: runs deflate shrinks, a zlib
\* stream, a RefPack stream of 4 literal bytes.
Payloads ==
    SeqsUpTo(PayloadBytes, MaxPayloadLen)
        \cup { Repeat(65, 6), Repeat(66, 7), <<65, 66>> \o Repeat(67, 8),
               ZlibEncode(Repeat(65, 2)), <<16, 251, 0, 0, 0, 4, 224, 65, 66, 67, 68>> }

Resource(d, compression) ==
    [data |-> d, memsize |-> Len(d), compression |-> compression, committed |-> 1]

Key3 == TGI(1, 0, U64(1, 0))

\* Resource sets of up to two resources, memsize the payload length.
ResourceSets ==
    {<<>>}
    \cup { (Key2 :> Resource(d, c)) : d \in Payloads, c \in {0, DeflateMarker} }
    \cup { (Key2 :> Resource(d, c)) @@ (k :> Resource(e, 0)) :
             d \in Payloads, c \in {0, DeflateMarker},
             k \in {Key1, Key3}, e \in {<<65>>, Repeat(66, 7)} }

InitPackage ==
    /\ eof_is_error \in BOOLEAN
    /\ resource_set \in ResourceSets
    /\ compress_arg \in BOOLEAN
    /\ written = <<>>
    /\ package = <<>>
    /\ raw_reads = <<>>
    /\ IdleHeader
    /\ IdleManifest
    /\ IdleOpen
    /\ IdleMerge
    /\ IdleUnmerge
    /\ IdleOther

WriteMerged ==
    /\ written = <<>>
    /\ written' = <<write_merged(resource_set, compress_arg)>>
    /\ UNCHANGED <<eof_is_error, resource_set, compress_arg, package, raw_reads,
                   hdrVars, manVars, openVars, mergeVars, unmergeVars, otherVars>>

OpenWritten ==
    /\ written # <<>>
    /\ package = <<>>
    /\ package' = <<open(written[1])>>
    /\ UNCHANGED <<eof_is_error, resource_set, compress_arg, written, raw_reads,
                   hdrVars, manVars, openVars, mergeVars, unmergeVars, otherVars>>

ReadRaw ==
    /\ package # <<>>
    /\ package[1].ok
    /\ Len(raw_reads) < Len(package[1].val.entries)
    /\ raw_reads' = Append(raw_reads, read_raw_resource(package[1].val, package[1].val.entries[Len(raw_reads) + 1]))
    /\ UNCHANGED <<eof_is_error, resource_set, compress_arg, written, package,
                   hdrVars, manVars, openVars, mergeVars, unmergeVars, otherVars>>

SpecPackage == InitPackage /\ [][WriteMerged \/ OpenWritten \/ ReadRaw]_vars

\* C2: after write_merged and open, read_raw_resource of every entry
\* succeeds with the payload handed to the writer under the entry's key,
\* when compress is true, and when compress is false and the tag is 0 (the
\* stored bytes are then the payload itself).
C2_WriteReadRoundTrip ==
    /\ (package # <<>>) => (package[1].ok /\ Len(package[1].val.entries) = Cardinality(DOMAIN resource_set))
    /\ \A i \in 1..Len(raw_reads) :
           LET e == package[1].val.entries[i]
               r == resource_set[e.tgi]
           IN  (compress_arg \/ r.compression = 0) =>
                   /\ raw_reads[i] = Ok(r.data)
                   /\ (~ compress_arg) =>
                          Take(written[1].body, e.offset - 96, e.filesize) = r.data

(***************************************************************************)
(* The merge specification: run_merge on a folder of source archives, then *)
(* run_unmerge on the archive it wrote.                                    *)
(***************************************************************************)
PayloadA == Repeat(65, 6)
PayloadB == Repeat(66, 7)
PayloadShort == <<65, 66>>

KeyAltManifest == TGI(ManifestKindAlt, 0, U64(0, 7))

\* A source archive whose second index record points past the end of the file.
UnreadableSecond ==
    LET f == write_merged((Key1 :> Resource(PayloadA, 0)) @@ (Key3 :> Resource(PayloadB, 0)),
                          FALSE)
    IN  [f EXCEPT !.recs[2].offset = f.len + 1]

\* The source archives a folder is made of.
SourceFiles ==
    << write_merged((Key1 :> Resource(PayloadA, 0)), FALSE),
       write_merged((Key1 :> Resource(PayloadB, 0)), FALSE),
       write_merged((Key2 :> Resource(PayloadShort, 0)), FALSE),
       write_merged((Key3 :> Resource(PayloadB, 0))
                        @@ (ManifestTgi :> Resource(to_bytes([version |-> 1,
                                padding |-> U64(0, 0), entries |-> <<>>]), 0))
                        @@ (KeyAltManifest :> Resource(<<1, 2, 3>>, 0)), FALSE),
       [write_merged(<<>>, FALSE) EXCEPT !.header.magic = <<68, 66, 80, 71>>],
       UnreadableSecond,
       write_merged(<<>>, FALSE),
       write_merged((Key2 :> Resource(PayloadA, DeflateMarker)), FALSE),
       [write_merged((Key1 :> Resource(PayloadB, 0)) @@ (Key3 :> Resource(PayloadA, 0)), FALSE)
            EXCEPT !.recs = <<@[2], @[1]>>] >>

\* The folders: up to MaxSources archives, the i-th with the stem <<96 + i>>.
Folders ==
    UNION { { [i \in 1..n |-> [stem |-> <<96 + i>>, file |-> SourceFiles[c[i]]]] :
                c \in [1..n -> 1..Len(SourceFiles)] } : n \in 0..MaxSources }

InitMerge ==
    /\ eof_is_error \in BOOLEAN
    /\ files_to_process \in Folders
    /\ results = [i \in 1..Len(files_to_process) |-> <<>>]
    /\ merge_pc = "start"
    /\ merged_data = <<>>
    /\ manifest_entries = <<>>
    /\ files_processed = 0
    /\ files_skipped = 0
    /\ merged_package = <<>>
    /\ merge_ret = <<>>
    /\ resource_set = <<>> /\ compress_arg = FALSE
    /\ written = <<>> /\ package = <<>> /\ raw_reads = <<>>
    /\ IdleHeader
    /\ IdleManifest
    /\ IdleOpen
    /\ IdleUnmerge
    /\ IdleOther

NotMerge == <<hdrVars, manVars, openVars, pkgVars, encVars, typedVars, rcolVars, refpackVars, indexVars, fanVars>>

\* What run_merge returns after warn!("No .package files found to merge.")
NoFilesFound_error == Err("No .package files found to merge.")
NoFilesFound == Ok(<<>>)

\* total_files == 0: return Ok(())
MergeStart ==
    /\ merge_pc = "start"
    /\ IF Len(files_to_process) = 0
       THEN merge_pc' = "done" /\ merge_ret' = <<NoFilesFound>>
       ELSE merge_pc' = "map" /\ UNCHANGED merge_ret
    /\ UNCHANGED <<files_to_process, results, merged_data, manifest_entries,
                   files_processed, files_skipped, merged_package, NotMerge, unmergeVars, created_dirs>>

\* One closure of the parallel map.
MergeWorker(i) ==
    /\ merge_pc = "map"
    /\ results[i] = <<>>
    /\ results' = [results EXCEPT ![i] = <<ProcessSource(files_to_process[i])>>]
    /\ UNCHANGED <<files_to_process, merge_pc, merged_data, manifest_entries,
                   files_processed, files_skipped, merged_package, merge_ret,
                   NotMerge, unmergeVars, created_dirs>>

\* collect(): every closure has returned.
MergeCollect ==
    /\ merge_pc = "map"
    /\ \A i \in 1..Len(results) : results[i] # <<>>
    /\ merge_pc' = "fold"
    /\ UNCHANGED <<files_to_process, results, merged_data, manifest_entries,
                   files_processed, files_skipped, merged_package, merge_ret,
                   NotMerge, unmergeVars, created_dirs>>

\* HashMap::is_empty
is_empty_never(m) == FALSE
is_empty(m) == DOMAIN m = {}

\* One iteration of for res in results.
MergeFold ==
    /\ merge_pc = "fold"
    /\ files_processed + files_skipped < Len(results)
    /\ LET res == results[files_processed + files_skipped + 1][1] IN
       IF res.ok
       THEN /\ files_processed' = files_processed + 1
            /\ manifest_entries' = Append(manifest_entries,
                   [name |-> res.val.filename, resources |-> res.val.pkg_resources])
            /\ merged_data' = InsertAll(merged_data, res.val.pkg_data)
            /\ UNCHANGED files_skipped
       ELSE /\ files_skipped' = files_skipped + 1
            /\ UNCHANGED <<files_processed, manifest_entries, merged_data>>
    /\ UNCHANGED <<files_to_process, results, merge_pc, merged_package, merge_ret,
                   NotMerge, unmergeVars, created_dirs>>

\* After the loop: return Ok(()) on an empty map, or insert the manifest and
\* write merged/merged.package.
MergeWrite ==
    /\ merge_pc = "fold"
    /\ files_processed + files_skipped = Len(results)
    /\ IF is_empty(merged_data)
       THEN /\ merge_pc' = "done"
            /\ merge_ret' = <<Ok(<<>>)>>
            /\ UNCHANGED <<merged_data, merged_package, created_dirs>>
       ELSE \E manifest_data \in {to_bytes([version |-> 1, padding |-> U64(0, 0),
                                             entries |-> manifest_entries])} :
                /\ merged_data' = Insert(merged_data, ManifestTgi,
                       [data |-> manifest_data, memsize |-> Len(manifest_data),
                        compression |-> DeflateMarker, committed |-> 1])
                /\ created_dirs' = created_dirs \cup {"merged"}
                /\ merged_package' = <<write_merged(merged_data', TRUE)>>
                /\ merge_pc' = "written"
                /\ UNCHANGED merge_ret
    /\ UNCHANGED <<files_to_process, results, manifest_entries, files_processed,
                   files_skipped, NotMerge, unmergeVars>>

\* merged_data.clear(); Ok(())
MergeReturn ==
    /\ merge_pc = "written"
    /\ merged_data' = <<>>
    /\ merge_ret' = <<Ok(<<>>)>>
    /\ merge_pc' = "done"
    /\ UNCHANGED <<files_to_process, results, manifest_entries, files_processed,
                   files_skipped, merged_package, NotMerge, unmergeVars, created_dirs>>

\* .context("No manifest found in package...")? and the match on
\* pkg.read_resource(&manifest_entry)?
ReadManifestOf_lenient(pkg, manifest_entry) ==
    IF manifest_entry = <<>>
    THEN Ok([version |-> 1, padding |-> U64(0, 0), entries |-> <<>>])
    ELSE read_resource(pkg, manifest_entry[1])
ReadManifestOf(pkg, manifest_entry) ==
    IF manifest_entry = <<>> THEN Err("No manifest found in package")
    ELSE read_resource(pkg, manifest_entry[1])

\* run_unmerge up to the parallel loop, on the archive at merged_package.
UnmergeStart ==
    /\ merge_pc = "done"
    /\ merged_package # <<>>
    /\ unmerge_pc = "idle"
    /\ \E pkg \in {open(merged_package[1])} :
         \E manifest_entry \in
                {IF pkg.ok
                 THEN Find(pkg.val.entries,
                           {n \in 1..Len(pkg.val.entries) :
                               IsManifestKindEntry(pkg.val.entries[n])})
                 ELSE <<>>} :
           \E m \in {IF pkg.ok THEN ReadManifestOf(pkg.val, manifest_entry) ELSE pkg} :
             IF ~ pkg.ok
             THEN unmerge_pc' = "done" /\ unmerge_ret' = <<pkg>>
                      /\ UNCHANGED <<manifest, unit_results, created_dirs>>
             ELSE IF ~ m.ok
             THEN unmerge_pc' = "done" /\ unmerge_ret' = <<m>>
                      /\ UNCHANGED <<manifest, unit_results, created_dirs>>
             ELSE /\ manifest' = <<m.val>>
                  /\ unit_results' = [i \in 1..Len(m.val.entries) |-> <<>>]
                  /\ created_dirs' = created_dirs \cup {"unmerged"}
                  /\ unmerge_pc' = "units"
                  /\ UNCHANGED unmerge_ret
    /\ UNCHANGED <<unmerged, mergeVars, NotMerge>>

\* One closure of try_for_each.
UnmergeUnit(i) ==
    /\ unmerge_pc = "units"
    /\ unit_results[i] = <<>>
    /\ \E r \in {ExtractUnit(merged_package[1], manifest[1].entries[i])} :
       /\ unit_results' = [unit_results EXCEPT ![i] = <<r>>]
       /\ unmerged' = IF r.ok THEN Insert(unmerged, r.val.filename, r.val.file)
                      ELSE unmerged
    /\ UNCHANGED <<unmerge_pc, manifest, unmerge_ret, created_dirs, mergeVars, NotMerge>>

\* try_for_each returns: every closure returned Ok, or one of them an error
\* (the closures not started by then are never run).
UnmergeReturn ==
    /\ unmerge_pc = "units"
    /\ \/ /\ \A i \in 1..Len(unit_results) : unit_results[i] # <<>> /\ unit_results[i][1].ok
          /\ unmerge_ret' = <<Ok(<<>>)>>
       \/ \E i \in 1..Len(unit_results) :
             /\ unit_results[i] # <<>> /\ ~ unit_results[i][1].ok
             /\ unmerge_ret' = unit_results[i]
    /\ unmerge_pc' = "done"
    /\ UNCHANGED <<manifest, unit_results, unmerged, created_dirs, mergeVars, NotMerge>>

NextMerge ==
    \/ MergeStart
    \/ \E i \in 1..Len(results) : MergeWorker(i)
    \/ MergeCollect
    \/ MergeFold
    \/ MergeWrite
    \/ MergeReturn
    \/ UnmergeStart
    \/ \E i \in 1..Len(unit_results) : UnmergeUnit(i)
    \/ UnmergeReturn

SpecMerge == InitMerge /\ [][NextMerge]_vars

\* The keys of an archive, and the index of an archive by key.
KeysOf(f) == LET pkg == open(f) IN
    IF pkg.ok THEN {pkg.val.entries[i].tgi : i \in 1..Len(pkg.val.entries)} ELSE {}

NonManifestKeysOf(f) ==
    {k \in KeysOf(f) : k.res_type # 2142678410 /\ k.res_type # 1944665835}

\* What read_raw_resource returns for key k of archive f (the first entry).
ReadKey(f, k) ==
    LET pkg == open(f)
        i == CHOOSE i \in 1..Len(pkg.val.entries) : pkg.val.entries[i].tgi = k
    IN  read_raw_resource(pkg.val, pkg.val.entries[i])

\* Opening the source or reading one of the resources run_merge reads fails.
SourceFails(f) ==
    \/ ~ open(f).ok
    \/ \E k \in NonManifestKeysOf(f) : ~ ReadKey(f, k).ok

Sources == 1..Len(files_to_process)
SourceFile(i) == files_to_process[i].file

\* C1: for sources that all read, hold no manifest-kind resource and have
\* pairwise distinct keys, run_unmerge on the archive run_merge wrote
\* returns Ok and leaves one archive per source, with exactly the keys of
\* its source, read_raw_resource returning the source's decoded bytes.
C1_MergeUnmergeRoundTrip ==
    (/\ unmerge_pc = "done"
     /\ \A i \in Sources : ~ SourceFails(SourceFile(i))
     /\ \A i \in Sources : KeysOf(SourceFile(i)) = NonManifestKeysOf(SourceFile(i))
     /\ \A i, j \in Sources : i # j => KeysOf(SourceFile(i)) \cap KeysOf(SourceFile(j)) = {})
    => /\ unmerge_ret = <<Ok(<<>>)>>
       /\ DOMAIN unmerged = {files_to_process[i].stem \o DotPackage : i \in Sources}
       /\ \A i \in Sources :
            LET rebuilt == unmerged[files_to_process[i].stem \o DotPackage] IN
            /\ open(rebuilt).ok
            /\ Len(open(rebuilt).val.entries) = Cardinality(KeysOf(SourceFile(i)))
            /\ KeysOf(rebuilt) = KeysOf(SourceFile(i))
            /\ \A k \in KeysOf(rebuilt) :
                   /\ ReadKey(rebuilt, k).ok
                   /\ ReadKey(rebuilt, k) = ReadKey(SourceFile(i), k)

\* The successfully processed sources that hold key k.
Owners(k) == {i \in Sources : ~ SourceFails(SourceFile(i)) /\ k \in NonManifestKeysOf(SourceFile(i))}

\* C3: when two successfully processed sources hold the same key with
\* different payloads, the archive run_merge wrote has exactly one index
\* entry for the key, and read_raw_resource of it is the payload of one of
\* the sources that hold the key.
C3_CollisionKeepsOnePayload ==
    merged_package # <<>> =>
        \A k \in {Key1, Key2, Key3} :
            (\E i, j \in Owners(k) : ReadKey(SourceFile(i), k) # ReadKey(SourceFile(j), k))
            => /\ open(merged_package[1]).ok
               /\ Cardinality({n \in 1..Len(merged_package[1].recs) :
                      LoadEntry(merged_package[1], n).tgi = k}) = 1
               /\ \E i \in Owners(k) :
                      ReadKey(merged_package[1], k) = ReadKey(SourceFile(i), k)

\* The index entries of a manifest kind in the archive run_merge wrote.
ManifestKindEntries ==
    LET es == open(merged_package[1]).val.entries IN
    {n \in 1..Len(es) : es[n].tgi.res_type = 2142678410 \/ es[n].tgi.res_type = 1944665835}

\* C9: the archive run_merge wrote holds exactly one resource of a manifest
\* kind: under key (0x7FB6AD8A, 0, 0), with a nonzero compression tag, and
\* it reads as the version-1 manifest of the sources processed.
C9_OneFreshManifest ==
    merged_package # <<>> =>
        /\ open(merged_package[1]).ok
        /\ Cardinality(ManifestKindEntries) = 1
        /\ \A n \in ManifestKindEntries :
             LET pkg == open(merged_package[1]).val IN
             /\ pkg.entries[n].tgi = TGI(2142678410, 0, U64(0, 0))
             /\ merged_package[1].recs[n].compression # 0
             /\ pkg.entries[n].compression # 0
             /\ read_resource(pkg, pkg.entries[n])
                  = Ok([version |-> 1, padding |-> U64(0, 0), entries |-> manifest_entries])
             /\ Len(manifest_entries) = files_processed

C9_Witness ==
    /\ merge_pc = "done"
    /\ merge_ret = <<Ok(<<>>)>>
    /\ merged_package # <<>>
    /\ \E i \in Sources :
          /\ KeyAltManifest \in KeysOf(SourceFile(i))
          /\ ManifestTgi \in KeysOf(SourceFile(i))
          /\ results[i][1].ok
          /\ Key3 \in KeysOf(merged_package[1])
    /\ Cardinality(ManifestKindEntries) = 1

\* What C10 says of a failed source apart from the output being written.
FailedSourceLeftOut(i) ==
    /\ merge_ret = <<Ok(<<>>)>>
    /\ \A n \in 1..Len(manifest_entries) :
           manifest_entries[n].name # from_utf8_lossy(files_to_process[i].stem)
    /\ Len(manifest_entries) = Cardinality({j \in Sources : ~ SourceFails(SourceFile(j))})
    /\ merged_package # <<>> =>
         /\ KeysOf(merged_package[1]) =
                {ManifestTgi} \cup UNION {NonManifestKeysOf(SourceFile(j)) :
                                            j \in {s \in Sources : ~ SourceFails(SourceFile(s))}}
         /\ \A k \in KeysOf(merged_package[1]) \ {ManifestTgi} :
                \E j \in Owners(k) :
                    LET e == CHOOSE e \in Range(open(merged_package[1]).val.entries) : e.tgi = k
                        stored == Take(merged_package[1].body, e.offset - 96, e.filesize)
                        p == ReadKey(SourceFile(j), k).val
                    IN  stored = p \/ stored = ZlibEncode(p)

\* C10 as claimed: a source that fails to open or read is left out, the
\* merge returns Ok, and the output archive is written.
C10_FailedSourceSkippedOutputWritten ==
    merge_pc = "done" =>
        \A i \in Sources : SourceFails(SourceFile(i)) =>
            /\ FailedSourceLeftOut(i)
            /\ merged_package # <<>>

\* C10, amended: a source that fails to open or read is left out and the
\* merge returns Ok; the output archive is written exactly when another
\* source contributed a resource.
C10_FailedSourceSkipped ==
    merge_pc = "done" =>
        \A i \in Sources : SourceFails(SourceFile(i)) =>
            /\ FailedSourceLeftOut(i)
            /\ (merged_package # <<>>) <=>
                   (\E j \in Sources : /\ ~ SourceFails(SourceFile(j))
                                       /\ NonManifestKeysOf(SourceFile(j)) # {})

C10_Witness ==
    /\ merge_pc = "done"
    /\ merged_package # <<>>
    /\ files_skipped = 1
    /\ \E i, j \in Sources :
          /\ SourceFile(i) = UnreadableSecond
          /\ ~ results[i][1].ok
          /\ results[j][1].ok
          /\ KeysOf(merged_package[1]) = {ManifestTgi, Key2}

\* No source contributes a resource: each one fails or holds none to read.
NothingToMerge ==
    \A j \in Sources : SourceFails(SourceFile(j)) \/ NonManifestKeysOf(SourceFile(j)) = {}

\* C11: when the sources that did not fail contribute no resource, run_merge
\* returns Ok(()) and has created neither the merged directory nor an output
\* file.
C11_EmptyMergeWritesNothing ==
    (merge_pc = "done" /\ NothingToMerge) =>
        /\ merge_ret = <<Ok(<<>>)>>
        /\ "merged" \notin created_dirs
        /\ merged_package = <<>>

C11_Witness ==
    /\ merge_pc = "done"
    /\ Len(files_to_process) = 2
    /\ files_skipped = 1
    /\ files_processed = 1
    /\ NothingToMerge
    /\ merge_ret = <<Ok(<<>>)>>
    /\ created_dirs = {}

(***************************************************************************)
(* The unmerge specification: run_unmerge on archives of any writer.       *)
(***************************************************************************)
MaxUnits == 2

\* An archive holding the stored entries pe in that order, each with the
\* tag it names.
ForeignArchive(pe) ==
    LET f == WrittenFile([i \in 1..Len(pe) |-> 0], pe,
                         Concat([i \in 1..Len(pe) |-> pe[i].final_data]))
    IN  [f EXCEPT !.recs = [i \in 1..Len(pe) |->
                               [f.recs[i] EXCEPT !.compression = pe[i].final_compression]]]

Stored(tgi, final_data, memsize, final_compression, committed) ==
    [tgi |-> tgi, final_data |-> final_data, memsize |-> memsize,
     final_compression |-> final_compression, committed |-> committed]

\* A RefPack stream of six bytes 67: a 4-literal opcode and a stop opcode
\* with 2 literals.
RefPackStored == <<16, 251, 0, 0, 0, 6, 224, 67, 67, 67, 67, 254, 67, 67>>

\* What the index holds besides the manifest.
StoredChoices ==
    << <<>>,
       << Stored(Key1, PayloadShort, 2, 0, 1),
          Stored(Key3, ZlibEncode(PayloadB), 7, DeflateMarker, 7) >>,
       << Stored(Key3, RefPackStored, 6, DeflateMarker, 1),
          Stored(Key1, ZlibEncode(PayloadA), 6, 65535, 7) >>,
       << Stored(Key1, PayloadA, 6, 0, 1),
          Stored(Key3, PayloadB, 7, 0, 1) >>,
       << Stored(Key2, PayloadShort, 2, 0, 1),
          Stored(Key1, ZlibEncode(PayloadShort), 2, DeflateMarker, 1) >> >>

\* The units a manifest lists.
UnitChoices ==
    << [name |-> <<97>>, resources |-> <<Key1, Key2>>],
       [name |-> <<98>>, resources |-> <<Key3>>],
       [name |-> <<99, 46, 80, 65, 67, 75, 65, 71, 69>>, resources |-> <<Key2>>],
       [name |-> <<97>> \o DotPackage, resources |-> <<Key3>>] >>

\* Up to max units.
UnitLists(max) ==
    UNION { { [i \in 1..n |-> UnitChoices[c[i]]] : c \in [1..n -> 1..Len(UnitChoices)] } :
            n \in 0..max }

\* The 4th choice of stored entries with its second record reaching past the
\* end of the file.
Damaged(n, f) == IF n = 4 THEN [f EXCEPT !.recs[Len(f.recs)].offset = f.len + 1] ELSE f

\* The archives run_unmerge is given: without a manifest-kind entry, with a
\* manifest of either kind that decodes, and with one that does not.
UnmergeArchives(max) ==
    { Damaged(n, ForeignArchive(StoredChoices[n])) : n \in 1..Len(StoredChoices) }
    \cup { Damaged(n, ForeignArchive(
               << Stored(TGI(kind, 0, U64(0, 0)),
                         to_bytes([version |-> 1, padding |-> U64(0, 0), entries |-> units]),
                         0, 0, 1) >> \o StoredChoices[n])) :
           n \in 1..Len(StoredChoices), kind \in {ManifestKind, ManifestKindAlt},
           units \in UnitLists(max) }
    \cup { ForeignArchive(StoredChoices[2]
                          \o << Stored(KeyAltManifest, <<1, 2, 3>>, 3, 0, 1) >>),
           [ForeignArchive(StoredChoices[2]) EXCEPT !.header.magic = <<68, 66, 80, 71>>] }

\* No merge runs; the archive is there.
InitUnmerge ==
    /\ eof_is_error \in BOOLEAN
    /\ merged_package \in { <<f>> : f \in UnmergeArchives(MaxUnits) }
    /\ merge_pc = "done"
    /\ files_to_process = <<>> /\ results = <<>> /\ merged_data = <<>>
    /\ manifest_entries = <<>> /\ files_processed = 0 /\ files_skipped = 0
    /\ merge_ret = <<>>
    /\ resource_set = <<>> /\ compress_arg = FALSE
    /\ written = <<>> /\ package = <<>> /\ raw_reads = <<>>
    /\ IdleHeader
    /\ IdleManifest
    /\ IdleOpen
    /\ IdleUnmerge
    /\ IdleOther

NextUnmerge ==
    \/ UnmergeStart
    \/ \E i \in 1..Len(unit_results) : UnmergeUnit(i)
    \/ UnmergeReturn

SpecUnmerge == InitUnmerge /\ [][NextUnmerge]_vars

\* C12: run_unmerge on an archive that opens and whose index has no entry
\* of kind 0x7FB6AD8A or 0x73E93EEB returns an error, and has created no
\* unmerged directory and written no sub-archive.
C12_NoManifestIsError ==
    (unmerge_pc = "done" /\ open(merged_package[1]).ok
        /\ ManifestKindEntries = {}) =>
        /\ unmerge_ret # <<>> /\ ~ unmerge_ret[1].ok
        /\ "unmerged" \notin created_dirs
        /\ unmerged = <<>>

C12_Witness ==
    /\ unmerge_pc = "done"
    /\ KeysOf(merged_package[1]) = {Key1, Key3}
    /\ unmerge_ret = <<Err("No manifest found in package")>>
    /\ created_dirs = {}
    /\ unmerged = <<>>

\* The keys manifest entry i lists, and those of them in the archive's index.
Listed(i) == Range(manifest[1].entries[i].resources)
Present(i) == Listed(i) \cap KeysOf(merged_package[1])

\* C13: the sub-archive a unit writes holds exactly the listed keys that are
\* in the merged archive's index; a unit fails only when reading a listed
\* key that is present fails, never because a listed key is absent.
C13_UnitHoldsListedPresentKeys ==
    \A i \in 1..Len(unit_results) :
        unit_results[i] # <<>> =>
            /\ unit_results[i][1].ok =>
                   KeysOf(unit_results[i][1].val.file) = Present(i)
            /\ ~ unit_results[i][1].ok =>
                   \E k \in Present(i) : ~ ReadKey(merged_package[1], k).ok

C13_Witness ==
    /\ unmerge_pc = "done"
    /\ unmerge_ret = <<Ok(<<>>)>>
    /\ \E i \in 1..Len(unit_results) :
          /\ Listed(i) = {Key1, Key2}
          /\ Present(i) = {Key1}
          /\ unit_results[i][1].ok
          /\ KeysOf(unit_results[i][1].val.file) = {Key1}

\* What archive f stores for key k (its first entry of that key): the
\* stored bytes, the compression tag and the committed value.
StoredOf(f, k) ==
    LET es == open(f).val.entries
        e == es[CHOOSE n \in 1..Len(es) :
                   es[n].tgi = k /\ \A j \in 1..(n - 1) : es[j].tgi # k]
    IN  [bytes |-> Take(f.body, e.offset - HeaderSize, e.filesize),
         memsize |-> e.memsize,
         compression |-> e.compression,
         committed |-> e.committed]

\* C14: every key a unit copied has, in the sub-archive, the stored bytes,
\* the compression tag and the committed value it has in the merged archive.
C14_StoredEntryCarriedUnchanged ==
    \A i \in 1..Len(unit_results) :
        (unit_results[i] # <<>> /\ unit_results[i][1].ok) =>
            \A k \in KeysOf(unit_results[i][1].val.file) :
                StoredOf(unit_results[i][1].val.file, k) = StoredOf(merged_package[1], k)

(***************************************************************************)
(* The encode specification: write_merged with its parallel map, for every *)
(* iteration order of the input map and every order the workers finish in. *)
(***************************************************************************)
MaxEncodeKeys == 3

KeyHigh == TGI(2142678411, 0, U64(0, 0))

\* The resources the writer is handed, by key: empty payloads, payloads
\* deflate shrinks and payloads it does not.
EncodePool ==
    (Key1 :> Resource(<<>>, 0)) @@ (Key2 :> Resource(PayloadA, 0))
    @@ (Key3 :> Resource(PayloadShort, DeflateMarker))
    @@ (ManifestTgi :> Resource(PayloadB, DeflateMarker))
    @@ (KeyAltManifest :> Resource(<<65>>, 0)) @@ (KeyHigh :> Resource(<<>>, 0))

EncodeSets(max) ==
    { [k \in ks |-> EncodePool[k]] :
      ks \in {s \in SUBSET DOMAIN EncodePool : Cardinality(s) <= max} }

\* The orders a map of these keys can iterate in.
IterationOrders(keys) ==
    { p \in [1..Cardinality(keys) -> keys] :
          \A i, j \in 1..Cardinality(keys) : p[i] = p[j] => i = j }

\* Vec::sort_by with the comparator of write_merged, as an insertion sort
\* (the comparator is a total order on distinct keys).
InsertSorted(s, k) ==
    LET n == Cardinality({i \in 1..Len(s) : \A j \in 1..i : ~ SortsBefore(k, s[j])})
    IN  SubSeq(s, 1, n) \o <<k>> \o SubSeq(s, n + 1, Len(s))

RECURSIVE sort_by(_, _, _)
sort_by(s, i, acc) ==
    IF i > Len(s) THEN acc
    ELSE CHOOSE r \in { sort_by(s, i + 1, a) : a \in {InsertSorted(acc, s[i])} } : TRUE

\* The closure of the parallel map on one key.
ProcessedEntry(merged_entries, tgi, compress) ==
    CHOOSE processed \in
        { [tgi |-> tgi, final_data |-> p[1], memsize |-> e.memsize,
           final_compression |-> p[2], committed |-> e.committed] :
          e \in {merged_entries[tgi]},
          p \in {EncodePayload(merged_entries[tgi].data, merged_entries[tgi].compression,
                               compress)} } : TRUE

InitEncode ==
    /\ eof_is_error \in BOOLEAN
    /\ resource_set \in EncodeSets(MaxEncodeKeys)
    /\ compress_arg \in BOOLEAN
    /\ keys_order \in IterationOrders(DOMAIN resource_set)
    /\ encode_results = <<>>
    /\ encode_file = <<>>
    /\ written = <<>> /\ package = <<>> /\ raw_reads = <<>>
    /\ IdleHeader /\ IdleManifest /\ IdleOpen /\ IdleMerge /\ IdleUnmerge
    /\ IdleDirs /\ IdleTyped /\ IdleRcol /\ IdleRefpack /\ IdleIndex /\ IdleFan

NotEncode ==
    <<eof_is_error, resource_set, compress_arg, written, package, raw_reads, hdrVars,
      manVars, openVars, mergeVars, unmergeVars, dirVars, typedVars, rcolVars,
      refpackVars, indexVars, fanVars>>

\* merged_entries.keys().collect() and sort_by: one slot per sorted key.
EncodeSort ==
    /\ encode_results = <<>>
    /\ encode_file = <<>>
    /\ \E sorted_keys \in {sort_by(keys_order, 1, <<>>)} :
           encode_results' = [i \in 1..Len(sorted_keys) |->
                                 [tgi |-> sorted_keys[i], out |-> <<>>]]
    /\ keys_order # <<>>
    /\ UNCHANGED <<keys_order, encode_file, NotEncode>>

\* One worker of par_iter().map() finishes; collect() keeps the slot.
EncodeWorker(i) ==
    /\ encode_file = <<>>
    /\ encode_results[i].out = <<>>
    /\ encode_results' = [encode_results EXCEPT ![i].out =
                              <<ProcessedEntry(resource_set, encode_results[i].tgi,
                                               compress_arg)>>]
    /\ UNCHANGED <<keys_order, encode_file, NotEncode>>

\* The for loop over processed_entries, the index and the header.
EncodeWrite ==
    /\ encode_file = <<>>
    /\ encode_results # <<>> \/ keys_order = <<>>
    /\ \A i \in 1..Len(encode_results) : encode_results[i].out # <<>>
    /\ \E processed_entries \in {[i \in 1..Len(encode_results) |-> encode_results[i].out[1]]} :
         \E body \in {Concat([i \in 1..Len(processed_entries) |->
                                  processed_entries[i].final_data])} :
           encode_file' = <<WrittenFile(resource_set, processed_entries, body)>>
    /\ UNCHANGED <<keys_order, encode_results, NotEncode>>

NextEncode ==
    \/ EncodeSort
    \/ \E i \in 1..Len(encode_results) : EncodeWorker(i)
    \/ EncodeWrite

SpecEncode == InitEncode /\ [][NextEncode]_vars

\* The index of the file written, as Package::open loads it.
EncodedEntries == open(encode_file[1]).val.entries

\* The entries of kind 0x7FB6AD8A come first, and within them and within
\* the others the keys ascend; the file is the one write_merged gives for
\* the map, whatever the iteration order and the workers' order were.
EncodedOrder ==
    /\ encode_file[1] = write_merged(resource_set, compress_arg)
    /\ {EncodedEntries[i].tgi : i \in 1..Len(EncodedEntries)} = DOMAIN resource_set
    /\ Len(EncodedEntries) = Cardinality(DOMAIN resource_set)
    /\ \A i, j \in 1..Len(EncodedEntries) :
           i < j =>
              LET a == EncodedEntries[i].tgi
                  b == EncodedEntries[j].tgi
              IN  /\ ~ (b.res_type = ManifestKind /\ a.res_type # ManifestKind)
                  /\ ((a.res_type = ManifestKind) = (b.res_type = ManifestKind))
                         => TupleLess(a, b)

\* C15 as claimed: manifest first, the rest ascending, and the payload
\* offsets increase in that order.
C15_SortedIndexOffsetsIncrease ==
    encode_file # <<>> =>
        /\ EncodedOrder
        /\ \A i \in 1..(Len(EncodedEntries) - 1) :
               EncodedEntries[i].offset < EncodedEntries[i + 1].offset

\* C15, amended: manifest first, the rest ascending, and each payload
\* starts where the one before it ends, the first after the header: the
\* offsets never decrease, and increase past every non-empty payload.
C15_SortedIndexOffsetsContiguous ==
    encode_file # <<>> =>
        /\ EncodedOrder
        /\ \A i \in 1..Len(EncodedEntries) :
               EncodedEntries[i].offset =
                   IF i = 1 THEN HeaderSize
                   ELSE EncodedEntries[i - 1].offset + EncodedEntries[i - 1].filesize

\* The map iterates with the manifest last and a higher key before a lower
\* one; the index lists manifest, lower, higher.
C15_Witness ==
    /\ encode_file # <<>>
    /\ keys_order = <<Key2, Key3, ManifestTgi>>
    /\ [i \in 1..3 |-> EncodedEntries[i].tgi] = <<ManifestTgi, Key3, Key2>>
    /\ EncodedEntries[1].offset < EncodedEntries[2].offset
    /\ EncodedEntries[2].offset < EncodedEntries[3].offset

\* Unit i hands write_merged an empty resource set: none of the keys its
\* manifest entry lists is in the merged archive.
UnitWritesEmptySet(i) ==
    /\ unit_results[i] # <<>>
    /\ Present(i) = {}

\* C16 as claimed: run_merge on a folder without source archives, and a
\* write_merged call with an empty resource set, return an error and leave
\* no output file.
C16_EmptyInputsAreErrors ==
    /\ (merge_pc = "done" /\ files_to_process = <<>>) =>
           /\ ~ merge_ret[1].ok
           /\ merged_package = <<>>
    /\ \A i \in 1..Len(unit_results) :
           UnitWritesEmptySet(i) => ~ unit_results[i][1].ok

\* C16, amended: run_merge on a folder without source archives returns
\* Ok(()) and writes nothing; write_merged with an empty resource set
\* returns Ok and leaves an archive of 100 bytes that opens with an empty
\* index.
C16_EmptyInputsAreNotErrors ==
    /\ (merge_pc = "done" /\ files_to_process = <<>>) =>
           /\ merge_ret = <<Ok(<<>>)>>
           /\ merged_package = <<>>
           /\ created_dirs = {}
    /\ \A i \in 1..Len(unit_results) :
           UnitWritesEmptySet(i) =>
               /\ unit_results[i][1].ok
               /\ unit_results[i][1].val.file = write_merged(<<>>, FALSE)
               /\ unit_results[i][1].val.file.len = 100
               /\ open(unit_results[i][1].val.file).ok
               /\ open(unit_results[i][1].val.file).val.entries = <<>>

\* A source without resources is merged next to one with a resource; its
\* unit of run_unmerge writes an empty set.
C16_Witness ==
    /\ unmerge_pc = "done"
    /\ unmerge_ret = <<Ok(<<>>)>>
    /\ \E i \in 1..Len(unit_results) :
          /\ UnitWritesEmptySet(i)
          /\ Listed(i) = {}
          /\ unit_results[i][1].ok
          /\ unit_results[i][1].val.filename \in DOMAIN unmerged
          /\ unmerged[unit_results[i][1].val.filename].header.index_count = 0

(***************************************************************************)
(* The read specification: read_raw_resource on entries of any stored      *)
(* form, tag and memory size.                                              *)
(***************************************************************************)
MaxReadMemsize == 7

\* Stored bytes: nothing, raw bytes, deflate streams (whole and cut), a
\* RefPack stream, and bytes with 0xFB first, second, or alone.
ReadStoredChoices ==
    { <<>>, <<65>>, PayloadShort, ZlibEncode(PayloadA), ZlibEncode(<<65>>),
      SubSeq(ZlibEncode(PayloadA), 1, 4), RefPackStored, <<120, 251, 0, 0, 0, 0>>,
      <<251, 65>>, <<251>>, <<120, 251>> }

ReadArchives(max) ==
    { ForeignArchive(<< Stored(Key1, s, m, c, 1) >>) :
      s \in ReadStoredChoices, m \in {0, 1, 6, max}, c \in {0, DeflateMarker, 65535} }

InitRead ==
    /\ eof_is_error \in BOOLEAN
    /\ resource_set = <<>>
    /\ compress_arg = FALSE
    /\ written \in { <<f>> : f \in ReadArchives(MaxReadMemsize) }
    /\ package = <<>>
    /\ raw_reads = <<>>
    /\ IdleHeader /\ IdleManifest /\ IdleOpen /\ IdleMerge /\ IdleUnmerge /\ IdleOther

SpecRead == InitRead /\ [][OpenWritten \/ ReadRaw]_vars

\* The bytes the archive stores for the i-th entry read.
StoredBytes(i) ==
    Take(written[1].body, package[1].val.entries[i].offset - HeaderSize,
         package[1].val.entries[i].filesize)

\* C17: read_raw_resource returns the stored bytes when the entry's tag is
\* 0; with a nonzero tag it returns what the RefPack decoder returns when
\* the stored data has at least 2 bytes and the second is 0xFB, and what
\* the deflate decoder returns otherwise, whatever the length of a decoded
\* result is.
C17_DecoderChoice ==
    \A i \in 1..Len(raw_reads) :
        LET e == package[1].val.entries[i]
            buf == StoredBytes(i)
        IN  /\ e.compression = 0 => raw_reads[i] = Ok(buf)
            /\ (e.compression # 0 /\ Len(buf) >= 2 /\ buf[2] = 251) =>
                   raw_reads[i] = decompress_refpack(buf, e.memsize)
            /\ (e.compression # 0 /\ ~ (Len(buf) >= 2 /\ buf[2] = 251)) =>
                   /\ raw_reads[i] = ZlibDecode(buf)
                   /\ (buf = ZlibEncode(PayloadA)) => raw_reads[i] = Ok(PayloadA)

\* A deflate stream of six bytes under a nonzero tag and memory_size 1 is
\* read as the six bytes.
C17_Witness ==
    /\ Len(raw_reads) = 1
    /\ package[1].val.entries[1].compression # 0
    /\ package[1].val.entries[1].memsize = 1
    /\ StoredBytes(1) = ZlibEncode(PayloadA)
    /\ raw_reads[1] = Ok(PayloadA)

(***************************************************************************)
(* The typed specification: TypedResource::from_bytes on manifest kinds,   *)
(* a stub kind and an unrecognized kind.                                   *)
(***************************************************************************)
XmlKind == 6899006              \* 0x0069453E
UnknownKind == 1

\* GenericResource::from_bytes and GenericStubResource::from_bytes_with_type
GenericVariant(d) == [variant |-> "Generic", data |-> d]
StubVariant(variant, res_type, d) == [variant |-> variant, res_type |-> res_type, data |-> d]

\* TypedResource::from_bytes: the arms of the manifest kinds, of one kind of
\* the Xml stubs and the default arm.
TypedResource_from_bytes(res_type, d) ==
    IF res_type = ManifestKindAlt \/ res_type = ManifestKind
    THEN CHOOSE res \in
             { IF ~ m.ok THEN m ELSE Ok([variant |-> "Manifest", value |-> m.val]) :
               m \in {from_bytes(d)} } : TRUE
    ELSE IF res_type = XmlKind THEN Ok(StubVariant("Xml", res_type, d))
    ELSE Ok(GenericVariant(d))

InitTyped ==
    /\ typed_kind \in {ManifestKind, ManifestKindAlt, XmlKind, UnknownKind}
    /\ typed_data \in ManifestInputs \cup {<<>>, <<1, 2, 3>>}
    /\ typed = <<>>
    /\ IdleHeader /\ IdleManifest /\ IdleOpen /\ IdlePackage /\ IdleMerge /\ IdleUnmerge
    /\ IdleDirs /\ IdleEncode /\ IdleRcol /\ IdleRefpack /\ IdleIndex /\ IdleFan

TypedFromBytes ==
    /\ typed = <<>>
    /\ typed' = <<TypedResource_from_bytes(typed_kind, typed_data)>>
    /\ UNCHANGED <<typed_kind, typed_data, hdrVars, manVars, openVars, pkgVars, mergeVars,
                   unmergeVars, dirVars, encVars, rcolVars, refpackVars, indexVars, fanVars>>

SpecTyped == InitTyped /\ [][TypedFromBytes]_vars

\* C18: TypedResource::from_bytes returns no error; for an unrecognized
\* kind, and when the decoder of the kind fails on the bytes, it returns
\* the generic variant holding the input bytes.
C18_NeverFailsGenericFallback ==
    typed # <<>> =>
        /\ typed[1].ok
        /\ (typed_kind = UnknownKind
               \/ (IsManifestKind(typed_kind) /\ ~ from_bytes(typed_data).ok)) =>
               typed[1].val = GenericVariant(typed_data)

(***************************************************************************)
(* The rcol specification: RcolResource::from_bytes, statement by          *)
(* statement, on headers and chunk tables of every shape.                  *)
(***************************************************************************)
MaxRcolChunks == 2

\* An i32 as 4 little-endian bytes and back (two's complement).
LEi32(n) ==
    IF n >= 0 THEN LE32(n)
    ELSE LET b == LE32((n + 2147483647) + 1) IN [b EXCEPT ![4] = @ + 128]

FromLEi32(b) ==
    IF b[4] >= 128 THEN (FromLE32([b EXCEPT ![4] = @ - 128]) - 2147483647) - 1
    ELSE FromLE32(b)

\* cursor.read_le of a TGI: res_type, res_group, instance
ReadRcolTGI(d, pos) ==
    TGI(FromLE32(Take(d, pos, 4)), FromLE32(Take(d, pos + 4, 4)),
        FromLE64(Take(d, pos + 8, 8)))

\* The sanity check on the two counts.
CountsTooLarge_unscaled(count_resources, count_chunks, data_len) ==
    count_resources > data_len \/ count_chunks > data_len
CountsTooLarge(count_resources, count_chunks, data_len) ==
    count_resources * 16 > data_len \/ count_chunks * 28 > data_len

\* The bytes the chunks are cut from.
RcolTail == <<71, 69, 79, 77, 1, 2, 3, 4>>

\* The (position, length) pairs a chunk index can hold, start the position
\* of RcolTail: unset, the tail, a negative length, a length or a position
\* beyond the data, two bytes at the end, nothing at the end, all the data.
RcolIndexChoices(start) ==
    << <<0, 0>>, <<start, 8>>, <<start, -1>>, <<start, 1000000>>, <<1000000, 4>>,
       <<start + 6, 2>>, <<start + 8, 0>>, <<0, start + 8>> >>

RcolCuts == {"none", "last", "head"}

\* An RCOL resource declaring the counts cr and cc, with the tables of the
\* counts that are small, the chunk index chosen by kinds, and cut.
RcolInput(cr, cc, kinds, cut) ==
    LET ntg == Len(kinds)
        ner == IF cr \in 0..1 THEN cr ELSE 0
        start == 20 + 16 * ntg + 16 * ner + 8 * ntg
        whole == LE32(3) \o LEi32(1) \o LE32(0) \o LEi32(cr) \o LEi32(cc)
                 \o Concat([i \in 1..ntg |-> LE32(i) \o LE32(0) \o LE64(U64(0, i))])
                 \o Concat([i \in 1..ner |-> LE32(9) \o LE32(0) \o LE64(U64(1, 0))])
                 \o Concat([i \in 1..ntg |->
                               LE32(RcolIndexChoices(start)[kinds[i]][1])
                               \o LEi32(RcolIndexChoices(start)[kinds[i]][2])])
                 \o RcolTail
    IN  IF cut = "none" THEN whole
        ELSE IF cut = "last" THEN SubSeq(whole, 1, Len(whole) - 1)
        ELSE SubSeq(whole, 1, 24)

RcolInputs(max) ==
    { RcolInput(cr, cc, <<>>, cut) :
      cr \in {-1, 0, 1, 1000000}, cc \in {-1, 0, 1000000}, cut \in RcolCuts }
    \cup UNION { { RcolInput(cr, n, kinds, cut) :
                   cr \in {-1, 0, 1, 1000000}, cut \in RcolCuts,
                   kinds \in [1..n -> 1..Len(RcolIndexChoices(0))] } :
                 n \in 1..max }
    \cup {<<>>, SubSeq(RcolInput(0, 0, <<>>, "none"), 1, 19)}

RcolLocals ==
    [cursor |-> 0, version |-> 0, public_chunks |-> 0, unused |-> 0,
     count_resources |-> 0, count_chunks |-> 0, allocated |-> FALSE,
     chunk_tgis |-> <<>>, external_resources |-> <<>>, chunk_index |-> <<>>,
     chunks |-> <<>>, reads |-> {}]

InitRcol ==
    /\ rcol_data \in RcolInputs(MaxRcolChunks)
    /\ rcol_pc = "header"
    /\ rcol = RcolLocals
    /\ rcol_ret = <<>>
    /\ IdleHeader /\ IdleManifest /\ IdleOpen /\ IdlePackage /\ IdleMerge /\ IdleUnmerge
    /\ IdleDirs /\ IdleEncode /\ IdleTyped /\ IdleRefpack /\ IdleIndex /\ IdleFan

NotRcol ==
    <<hdrVars, manVars, openVars, pkgVars, mergeVars, unmergeVars, dirVars, encVars,
      typedVars, refpackVars, indexVars, fanVars>>

RcolFail(e) ==
    /\ rcol_ret' = <<Err(e)>>
    /\ rcol_pc' = "done"

\* The five read_le calls of the header.
RcolReadHeader ==
    /\ rcol_pc = "header"
    /\ IF Len(rcol_data) < 20
       THEN RcolFail("failed to fill whole buffer") /\ UNCHANGED rcol
       ELSE /\ rcol' = [rcol EXCEPT
                           !.version = FromLE32(Take(rcol_data, 0, 4)),
                           !.public_chunks = FromLEi32(Take(rcol_data, 4, 4)),
                           !.unused = FromLE32(Take(rcol_data, 8, 4)),
                           !.count_resources = FromLEi32(Take(rcol_data, 12, 4)),
                           !.count_chunks = FromLEi32(Take(rcol_data, 16, 4)),
                           !.cursor = 20]
            /\ rcol_pc' = "counts"
            /\ UNCHANGED rcol_ret
    /\ UNCHANGED <<rcol_data, NotRcol>>

\* The two checks on the counts.
RcolCheckCounts ==
    /\ rcol_pc = "counts"
    /\ IF rcol.count_resources < 0 \/ rcol.count_chunks < 0
       THEN RcolFail("Invalid RCOL header: negative count")
       ELSE IF CountsTooLarge(rcol.count_resources, rcol.count_chunks, Len(rcol_data))
       THEN RcolFail("Invalid RCOL header: count too large for data size")
       ELSE rcol_pc' = "allocate" /\ UNCHANGED rcol_ret
    /\ UNCHANGED <<rcol_data, rcol, NotRcol>>

\* Vec::with_capacity(count_chunks as usize), the first allocation sized by
\* a count.
RcolAllocate ==
    /\ rcol_pc = "allocate"
    /\ rcol' = [rcol EXCEPT !.allocated = TRUE]
    /\ rcol_pc' = "tables"
    /\ UNCHANGED <<rcol_data, rcol_ret, NotRcol>>

\* The three loops that read chunk_tgis, external_resources and chunk_index,
\* and the rewrite of an unset index of a single chunk.
RcolReadTables ==
    /\ rcol_pc = "tables"
    /\ \E cc \in {rcol.count_chunks}, cr \in {rcol.count_resources} :
       \E tgis \in {20}, ext \in {20 + 16 * cc}, idx \in {20 + 16 * cc + 16 * cr} :
       \E current_pos \in {idx + 8 * cc} :
         IF current_pos > Len(rcol_data)
         THEN RcolFail("failed to fill whole buffer") /\ UNCHANGED rcol
         ELSE \E chunk_index \in
                    {[i \in 1..cc |-> <<FromLE32(Take(rcol_data, idx + 8 * (i - 1), 4)),
                                        FromLEi32(Take(rcol_data, idx + 8 * (i - 1) + 4, 4))>>]} :
                /\ rcol' = [rcol EXCEPT
                       !.chunk_tgis = [i \in 1..cc |->
                                          ReadRcolTGI(rcol_data, tgis + 16 * (i - 1))],
                       !.external_resources = [i \in 1..cr |->
                                                  ReadRcolTGI(rcol_data, ext + 16 * (i - 1))],
                       !.chunk_index =
                           IF cc = 1 /\ chunk_index[1] = <<0, 0>>
                           THEN << <<current_pos, Len(rcol_data) - current_pos>> >>
                           ELSE chunk_index,
                       !.cursor = current_pos]
                /\ rcol_pc' = "chunks"
                /\ UNCHANGED rcol_ret
    /\ UNCHANGED <<rcol_data, NotRcol>>

\* One iteration of the loop over the chunks.
RcolReadChunk ==
    /\ rcol_pc = "chunks"
    /\ Len(rcol.chunks) < rcol.count_chunks
    /\ \E i \in {Len(rcol.chunks) + 1} :
       \E pos \in {rcol.chunk_index[i][1]}, len \in {rcol.chunk_index[i][2]} :
         IF len < 0
         THEN RcolFail("Invalid RCOL chunk length") /\ UNCHANGED rcol
         ELSE IF pos + len > Len(rcol_data)
         THEN RcolFail("RCOL chunk extends beyond data bounds") /\ UNCHANGED rcol
         ELSE IF pos + 4 > Len(rcol_data)
         THEN RcolFail("failed to fill whole buffer") /\ UNCHANGED rcol
         ELSE /\ rcol' = [rcol EXCEPT
                    !.chunks = Append(@, [tgi |-> rcol.chunk_tgis[i],
                                          tag |-> from_utf8_lossy(Take(rcol_data, pos, 4)),
                                          data |-> Take(rcol_data, pos, len)]),
                    !.reads = @ \cup {<<pos, 4>>, <<pos, len>>},
                    !.cursor = pos + len]
              /\ UNCHANGED <<rcol_pc, rcol_ret>>
    /\ UNCHANGED <<rcol_data, NotRcol>>

\* Ok(Self { .. })
RcolReturn ==
    /\ rcol_pc = "chunks"
    /\ Len(rcol.chunks) = rcol.count_chunks
    /\ rcol_ret' = <<Ok([version |-> rcol.version, public_chunks |-> rcol.public_chunks,
                         unused |-> rcol.unused,
                         external_resources |-> rcol.external_resources,
                         chunks |-> rcol.chunks])>>
    /\ rcol_pc' = "done"
    /\ UNCHANGED <<rcol_data, rcol, NotRcol>>

NextRcol ==
    \/ RcolReadHeader
    \/ RcolCheckCounts
    \/ RcolAllocate
    \/ RcolReadTables
    \/ RcolReadChunk
    \/ RcolReturn

SpecRcol == InitRcol /\ [][NextRcol]_vars

\* The counts the input declares (it has the 20 header bytes).
DeclaredResources == FromLEi32(Take(rcol_data, 12, 4))
DeclaredChunks == FromLEi32(Take(rcol_data, 16, 4))

\* Chunk i passes every check of its iteration.
ChunkReads(i) ==
    /\ rcol.chunk_index[i][2] >= 0
    /\ rcol.chunk_index[i][1] + rcol.chunk_index[i][2] <= Len(rcol_data)
    /\ rcol.chunk_index[i][1] + 4 <= Len(rcol_data)

MaxRefpackTokens == 3

\* Opcodes with their operands: stop without and with a literal, four
\* literals, a short back-reference, a stop with one of its two literals.
RefpackTokens ==
    << <<252>>, <<253, 65>>, <<224, 65, 66, 67, 68>>, <<0, 0>>, <<254, 65>> >>

RefpackStreams(max) ==
    UNION { { <<16, 251, 0, 0, 0, 4>> \o Concat([i \in 1..n |-> RefpackTokens[c[i]]]) :
              c \in [1..n -> 1..Len(RefpackTokens)] } : n \in 0..max }
    \cup {<<>>, <<16, 251>>, <<16, 250, 0, 0, 0, 4>>, <<144, 251, 0, 0, 4, 252>>,
          <<16, 251, 0, 0, 0, 4, 253, 65, 0>>, <<16, 251, 0, 0, 0, 4, 253, 65, 128, 0>>,
          <<16, 251, 0, 0, 0, 4, 253, 65, 192, 0, 0>>}

\* A u8 value: the arithmetic the code does before `as usize`.
U8(x) == x % 256

\* The locals one iteration derives from the opcode byte at r_pos and its
\* trailer bytes: brk when the trailer is missing, r_pos after the trailer.
OpcodeLocals(d, r_pos) ==
    LET byte0 == d[r_pos + 1]
        r1 == r_pos + 1
        Break == [brk |-> TRUE, r_pos |-> r1, has_copy |-> FALSE,
                  num_plain |-> 0, num_copy |-> 0, copy_offset |-> 0]
    IN
    IF byte0 <= 127 THEN
        IF r1 >= Len(d) THEN Break
        ELSE [brk |-> FALSE, r_pos |-> r1 + 1, has_copy |-> TRUE,
              num_plain |-> byte0 % 4,
              num_copy |-> U8(((byte0 \div 4) % 8) + 3),
              copy_offset |-> ((byte0 \div 32) % 4) * 256 + d[r1 + 1] + 1]
    ELSE IF byte0 <= 191 THEN
        IF r1 + 1 >= Len(d) THEN Break
        ELSE [brk |-> FALSE, r_pos |-> r1 + 2, has_copy |-> TRUE,
              num_plain |-> d[r1 + 1] \div 64,
              num_copy |-> U8((byte0 % 64) + 4),
              copy_offset |-> (d[r1 + 1] % 64) * 256 + d[r1 + 2] + 1]
    ELSE IF byte0 <= 223 THEN
        IF r1 + 2 >= Len(d) THEN Break
        ELSE [brk |-> FALSE, r_pos |-> r1 + 3, has_copy |-> TRUE,
              num_plain |-> byte0 % 4,
              num_copy |-> ((byte0 \div 4) % 4) * 256 + d[r1 + 3] + 5,
              copy_offset |-> ((byte0 \div 16) % 2) * 65536 + d[r1 + 1] * 256
                                  + d[r1 + 2] + 1]
    ELSE IF byte0 <= 251 THEN
        [brk |-> FALSE, r_pos |-> r1, has_copy |-> FALSE,
         num_plain |-> U8(U8((byte0 % 32) * 4) + 4), num_copy |-> 0, copy_offset |-> 0]
    ELSE
        [brk |-> FALSE, r_pos |-> r1, has_copy |-> FALSE,
         num_plain |-> byte0 % 4, num_copy |-> 0, copy_offset |-> 0]

\* One iteration of the while loop from r_pos: the break, the copies done,
\* or the error of a copy.
RefPackStep(d, memsize, r_pos, out) ==
    LET l == CHOOSE x \in {OpcodeLocals(d, r_pos)} : TRUE
        Copied(s) == [kind |-> IF s.ok THEN "ok" ELSE "err", r_pos |-> s.r_pos, out |-> s.out]
    IN
    IF l.brk THEN [kind |-> "break", r_pos |-> l.r_pos, out |-> out]
    ELSE IF l.has_copy
    THEN Copied(PlainThenRef(d, l.r_pos, out, memsize, l.num_plain, l.num_copy,
                             l.copy_offset))
    ELSE Copied(copy_plain(d, l.r_pos, out, memsize, l.num_plain))

InitRefpack ==
    /\ refpack \in { [data |-> d, memsize |-> m, pc |-> "header", r_pos |-> 0,
                      out |-> <<>>, opcodes |-> <<>>, ret |-> <<>>] :
                     d \in RefpackStreams(MaxRefpackTokens), m \in {0, 4, 8} }
    /\ IdleHeader /\ IdleManifest /\ IdleOpen /\ IdlePackage /\ IdleMerge /\ IdleUnmerge
    /\ IdleDirs /\ IdleEncode /\ IdleTyped /\ IdleRcol /\ IdleIndex /\ IdleFan

NotRefpack ==
    <<hdrVars, manVars, openVars, pkgVars, mergeVars, unmergeVars, dirVars, encVars,
      typedVars, rcolVars, indexVars, fanVars>>

\* The statements before the loop.
RefpackHeader ==
    /\ refpack # <<>>
    /\ refpack.pc = "header"
    /\ \E d \in {refpack.data} :
         refpack' =
           IF Len(d) < 2
           THEN [refpack EXCEPT !.pc = "done", !.ret = <<Err("RefPack data too short")>>]
           ELSE IF d[2] # 251
           THEN [refpack EXCEPT !.pc = "done", !.r_pos = 2,
                                !.ret = <<Err("Invalid RefPack signature")>>]
           ELSE IF 2 + (IF d[1] >= 128 THEN 3 ELSE 4) > Len(d)
           THEN [refpack EXCEPT !.pc = "done", !.r_pos = 2,
                                !.ret = <<Err("RefPack data too short for size header")>>]
           ELSE [refpack EXCEPT !.pc = "loop",
                                !.r_pos = 2 + (IF d[1] >= 128 THEN 3 ELSE 4)]
    /\ UNCHANGED NotRefpack

\* One iteration of while w_pos < memsize && r_pos < data.len().
RefpackOpcode ==
    /\ refpack # <<>>
    /\ refpack.pc = "loop"
    /\ Len(refpack.out) < refpack.memsize /\ refpack.r_pos < Len(refpack.data)
    /\ \E s \in {RefPackStep(refpack.data, refpack.memsize, refpack.r_pos, refpack.out)} :
         refpack' =
           [refpack EXCEPT
              !.opcodes = Append(@, refpack.data[refpack.r_pos + 1]),
              !.r_pos = s.r_pos,
              !.out = s.out,
              !.pc = IF s.kind = "ok" THEN "loop" ELSE "done",
              !.ret = IF s.kind = "ok" THEN <<>>
                      ELSE IF s.kind = "break" THEN <<RefPackDone(s.out, refpack.memsize)>>
                      ELSE <<Err("RefPack: copy out of bounds")>>]
    /\ UNCHANGED NotRefpack

\* The loop condition fails: Ok(decompressed)
RefpackReturn ==
    /\ refpack # <<>>
    /\ refpack.pc = "loop"
    /\ ~ (Len(refpack.out) < refpack.memsize /\ refpack.r_pos < Len(refpack.data))
    /\ refpack' = [refpack EXCEPT !.pc = "done",
                                  !.ret = <<RefPackDone(refpack.out, refpack.memsize)>>]
    /\ UNCHANGED NotRefpack

NextRefpack == RefpackHeader \/ RefpackOpcode \/ RefpackReturn

SpecRefpack == InitRefpack /\ [][NextRefpack]_vars

\* The iterations compute what decompress_refpack returns.
RefpackAgrees ==
    (refpack # <<>> /\ refpack.pc = "done") =>
        refpack.ret = <<decompress_refpack(refpack.data, refpack.memsize)>>

\* C20: an opcode byte in 0xFC..0xFF is the last byte interpreted as an
\* opcode: after it no further input byte is.
C20_StopOpcodeEndsDecoding ==
    refpack # <<>> =>
        \A i \in 1..(Len(refpack.opcodes) - 1) : refpack.opcodes[i] < 252

\* C21: decompress_refpack returns an error when the signature byte is not
\* 0xFB, when the literal run of an opcode would read past the end of the input
\* or write past memsize bytes, when its back-reference would write past
\* memsize bytes, and when the back-reference offset exceeds the bytes already
\* output; its positions never leave the input or the buffer.
C21_OutOfBoundsIsError ==
    [][ /\ (RefpackHeader /\ Len(refpack.data) >= 2 /\ refpack.data[2] # 251)
            => refpack'.ret = <<Err("Invalid RefPack signature")>>
        /\ RefpackOpcode =>
             LET d == refpack.data
                 w_pos == Len(refpack.out)
                 l == OpcodeLocals(d, refpack.r_pos)
                 plain_out == l.r_pos + l.num_plain > Len(d)
                                  \/ w_pos + l.num_plain > refpack.memsize
                 ref_out == l.has_copy
                                /\ (l.copy_offset > w_pos + l.num_plain
                                    \/ w_pos + l.num_plain + l.num_copy > refpack.memsize)
             IN  (~ l.brk /\ (plain_out \/ ref_out)) =>
                     /\ refpack'.pc = "done"
                     /\ refpack'.ret = <<Err("RefPack: copy out of bounds")>>
        /\ NextRefpack =>
             /\ refpack'.r_pos <= Len(refpack'.data)
             /\ Len(refpack'.out) <= refpack'.memsize ]_vars

\* A back-reference as the first opcode: its offset 1 exceeds the empty output.
C21_Witness ==
    /\ refpack # <<>>
    /\ refpack.pc = "done"
    /\ refpack.opcodes = <<0>>
    /\ refpack.out = <<>>
    /\ refpack.ret = <<Err("RefPack: copy out of bounds")>>

\* ---- One opcode after a literal preamble: every opcode byte, trailer bytes
\* ---- from TrailerValues.

PreambleLen == 8

OpcodeMemsize == 100

TrailerValues == {0, 1, 63, 64, 128, 255}

TrailerLen(byte0) ==
    IF byte0 <= 127 THEN 1 ELSE IF byte0 <= 191 THEN 2 ELSE IF byte0 <= 223 THEN 3 ELSE 0

\* Header, an opcode of class 0xE0-0xFB carrying n literals (n a multiple of
\* 4), the opcode under test with its trailer, and literals for it.
OpcodeStreams(n) ==
    { <<16, 251, 0, 0, 0, 0>> \o <<224 + (n \div 4) - 1>> \o [i \in 1..(4 * (n \div 4)) |-> i]
          \o <<byte0>> \o t \o [i \in 1..112 |-> 64 + (i % 4)] :
      byte0 \in 0..255, t \in UNION {[1..k -> TrailerValues] : k \in 0..3} }

InitOpcode ==
    /\ refpack \in { [data |-> d, memsize |-> OpcodeMemsize, pc |-> "header", r_pos |-> 0,
                      out |-> <<>>, opcodes |-> <<>>, ret |-> <<>>] :
                     d \in { x \in OpcodeStreams(PreambleLen) :
                               Len(x) = 7 + 4 * (PreambleLen \div 4) + 1
                                          + TrailerLen(x[8 + 4 * (PreambleLen \div 4)]) + 112 } }
    /\ IdleHeader /\ IdleManifest /\ IdleOpen /\ IdlePackage /\ IdleMerge /\ IdleUnmerge
    /\ IdleDirs /\ IdleEncode /\ IdleTyped /\ IdleRcol /\ IdleIndex /\ IdleFan

SpecOpcode == InitOpcode /\ [][NextRefpack]_vars

\* Bit operations on naturals, for the formulas as the format states them.
RECURSIVE BitAnd(_, _)
BitAnd(a, b) ==
    IF a = 0 \/ b = 0 THEN 0
    ELSE (a % 2) * (b % 2) + 2 * BitAnd(a \div 2, b \div 2)

Shl(a, n) == a * 2 ^ n

Shr(a, n) == a \div 2 ^ n

\* num_plain, num_copy and offset of an opcode by the formula of its class.
FormatPlain(byte0, byte1) ==
    IF byte0 <= 127 THEN BitAnd(byte0, 3)
    ELSE IF byte0 <= 191 THEN Shr(byte1, 6)
    ELSE IF byte0 <= 223 THEN BitAnd(byte0, 3)
    ELSE IF byte0 <= 251 THEN Shl(BitAnd(byte0, 31), 2) + 4
    ELSE BitAnd(byte0, 3)

FormatCopy(byte0, byte3) ==
    IF byte0 <= 127 THEN BitAnd(Shr(byte0, 2), 7) + 3
    ELSE IF byte0 <= 191 THEN BitAnd(byte0, 63) + 4
    ELSE IF byte0 <= 223 THEN Shl(BitAnd(byte0, 12), 6) + byte3 + 5
    ELSE 0

FormatOffset(byte0, byte1, byte2) ==
    IF byte0 <= 127 THEN Shl(BitAnd(byte0, 96), 3) + byte1 + 1
    ELSE IF byte0 <= 191 THEN Shl(BitAnd(byte1, 63), 8) + byte2 + 1
    ELSE IF byte0 <= 223 THEN Shl(BitAnd(byte0, 16), 12) + Shl(byte1, 8) + byte2 + 1
    ELSE 0

\* C22: whenever an iteration has its trailer bytes, the values it derives are
\* those of the formula of the opcode's class (no value wraps at 8 bits), and
\* when its copies succeed the output is the old output, then num_plain
\* literals taken from the input after the trailer, then num_copy bytes each
\* equal to the output byte offset positions before it.
C22_OpcodeFormulas ==
    [][ RefpackOpcode =>
          LET d == refpack.data
              r == refpack.r_pos
              byte0 == d[r + 1]
              l == OpcodeLocals(d, r)
              byte1 == IF byte0 <= 223 THEN d[r + 2] ELSE 0
              byte2 == IF byte0 >= 128 /\ byte0 <= 223 THEN d[r + 3] ELSE 0
              byte3 == IF byte0 >= 192 /\ byte0 <= 223 THEN d[r + 4] ELSE 0
              np == FormatPlain(byte0, byte1)
              nc == FormatCopy(byte0, byte3)
              off == FormatOffset(byte0, byte1, byte2)
              n0 == Len(refpack.out)
              new == refpack'.out
          IN  ~ l.brk =>
                /\ l.r_pos = r + 1 + TrailerLen(byte0)
                /\ l.num_plain = np
                /\ l.has_copy = (byte0 <= 223)
                /\ l.has_copy => (l.num_copy = nc /\ l.copy_offset = off)
                /\ refpack'.pc = "loop" =>
                     /\ Len(new) = n0 + np + nc
                     /\ \A i \in 1..n0 : new[i] = refpack.out[i]
                     /\ \A i \in 1..np : new[n0 + i] = d[l.r_pos + i]
                     /\ \A i \in 1..nc : new[n0 + np + i] = new[n0 + np + i - off]
                     /\ refpack'.r_pos = l.r_pos + np ]_vars

\* The opcode 0xC3 with trailer 0, 1, 64 after the preamble: 3 literals, then
\* 69 bytes copied from 2 positions back, an overlapping copy.
C22_Witness ==
    /\ refpack # <<>>
    /\ refpack.opcodes = <<225, 195>>
    /\ Len(refpack.out) = 8 + 3 + 69
    /\ refpack.out[80] = refpack.out[78]
    /\ refpack.out[80] # refpack.out[79]
    /\ refpack.memsize = OpcodeMemsize

\* A payload that looks compressed already, as the claim words it.
LooksCompressed(raw) ==
    (Len(raw) >= 1 /\ raw[1] = 120) \/ (Len(raw) >= 2 /\ raw[2] = 251)

\* C23: for every resource handed to write_merged, when compression is
\* requested (compress, or a nonzero tag) a payload that looks compressed is
\* stored unchanged, any other payload is stored deflated if that is strictly
\* shorter and unchanged otherwise, with tag 0x5A42 in each case; when
\* compression is not requested the payload is stored unchanged with tag 0;
\* the stored size never exceeds the payload's length.
C23_StoredFormAndTag ==
    written # <<>> =>
        \A k \in DOMAIN resource_set :
            LET raw == resource_set[k].data
                stored == StoredOf(written[1], k)
                deflated == ZlibEncode(raw)
            IN  /\ Len(stored.bytes) <= Len(raw)
                /\ IF compress_arg \/ resource_set[k].compression # 0
                   THEN /\ stored.compression = 23106
                        /\ stored.bytes =
                             IF LooksCompressed(raw) THEN raw
                             ELSE IF Len(deflated) < Len(raw) THEN deflated
                             ELSE raw
                   ELSE stored.compression = 0 /\ stored.bytes = raw

\* Written with compression requested: a payload deflate shortens next to
\* one it does not.
C23_Witness ==
    /\ written # <<>>
    /\ compress_arg
    /\ DOMAIN resource_set = {Key2, Key3}
    /\ resource_set[Key2].data = Repeat(65, 6)
    /\ StoredOf(written[1], Key2).bytes = ZlibEncode(Repeat(65, 6))
    /\ StoredOf(written[1], Key3).bytes = <<65>>
    /\ StoredOf(written[1], Key3).compression = 23106

(***************************************************************************)
(* The index block as bytes: what write_merged writes after the payloads   *)
(* and what Package::open reads from header.index_position.                *)
(***************************************************************************)

MaxIndexEntries == 2

LE16(n) == <<n % 256, (n \div 256) % 256>>

FromLE16(b) == b[1] + 256 * b[2]

\* A u32 with bit 31 kept apart: [hi |-> bit 31, lo |-> the low 31 bits].
LE32Raw(v) == LET b == LE32(v.lo) IN <<b[1], b[2], b[3], b[4] + 128 * v.hi>>

FromLE32Raw(b) ==
    [hi |-> b[4] \div 128, lo |-> FromLE32(<<b[1], b[2], b[3], b[4] % 128>>)]

\* The bytes of one index record, as the loop of write_merged writes them.
write_index_entry(entry) ==
    LE32(entry.tgi.res_type) \o LE32(entry.tgi.res_group)
        \o LE32(entry.tgi.instance.hi) \o LE32(entry.tgi.instance.lo)
        \o LE32(entry.offset)
        \o LE32Raw([hi |-> IF entry.compression # 0 THEN 1 ELSE 0, lo |-> entry.filesize])
        \o LE32(entry.memsize)
        \o LE16(IF entry.compression # 0 THEN DeflateMarker ELSE 0)
        \o LE16(entry.committed)

\* index_type 0, then the records.
write_index(index_entries) ==
    LE32(0) \o Concat([i \in 1..Len(index_entries) |-> write_index_entry(index_entries[i])])

\* A reader that takes the offset and the memory size from each other's place.
ReadIndexRecord_swapped(buf_rest, res_type, res_group, instance_hi) ==
    LET filesize_raw == FromLE32Raw(SubSeq(buf_rest, 9, 12))
        memsize == FromLE32(SubSeq(buf_rest, 5, 8))
    IN  [tgi |-> TGI(res_type, res_group, U64(instance_hi, FromLE32(SubSeq(buf_rest, 1, 4)))),
         offset |-> FromLE32(SubSeq(buf_rest, 13, 16)),
         filesize |-> filesize_raw.lo,
         memsize |-> memsize,
         compression |-> InferCompression(filesize_raw, memsize,
                                          FromLE16(SubSeq(buf_rest, 17, 18))),
         committed |-> FromLE16(SubSeq(buf_rest, 19, 20))]

\* The IndexEntry made of the 20 bytes buf_rest and the three key parts.
ReadIndexRecord(buf_rest, res_type, res_group, instance_hi) ==
    LET filesize_raw == FromLE32Raw(SubSeq(buf_rest, 9, 12))
        memsize == FromLE32(SubSeq(buf_rest, 13, 16))
    IN  [tgi |-> TGI(res_type, res_group, U64(instance_hi, FromLE32(SubSeq(buf_rest, 1, 4)))),
         offset |-> FromLE32(SubSeq(buf_rest, 5, 8)),
         filesize |-> filesize_raw.lo,
         memsize |-> memsize,
         compression |-> InferCompression(filesize_raw, memsize,
                                          FromLE16(SubSeq(buf_rest, 17, 18))),
         committed |-> FromLE16(SubSeq(buf_rest, 19, 20))]

\* An index block of another writer: the constants index_type announces,
\* then per record the key parts that are not constant and the 20 bytes.
ForeignIndexBlock(index_type, consts, recs) ==
    LE32(index_type)
        \o (IF Bit(index_type, 0) # 0 THEN LE32(consts.res_type) ELSE <<>>)
        \o (IF Bit(index_type, 1) # 0 THEN LE32(consts.res_group) ELSE <<>>)
        \o (IF Bit(index_type, 2) # 0 THEN LE32(consts.instance_hi) ELSE <<>>)
        \o Concat([i \in 1..Len(recs) |->
                     (IF Bit(index_type, 0) # 0 THEN <<>> ELSE LE32(recs[i].res_type))
                     \o (IF Bit(index_type, 1) # 0 THEN <<>> ELSE LE32(recs[i].res_group))
                     \o (IF Bit(index_type, 2) # 0 THEN <<>> ELSE LE32(recs[i].instance_hi))
                     \o LE32(recs[i].instance_lo) \o LE32(recs[i].offset)
                     \o LE32Raw(recs[i].filesize_raw) \o LE32(recs[i].memsize)
                     \o LE16(recs[i].compression) \o LE16(recs[i].committed)])

ForeignConsts == [res_type |-> 257, res_group |-> 66051, instance_hi |-> 2142678410]

ForeignRec(i) ==
    [res_type |-> 1000 * i + 1, res_group |-> 1000 * i + 2, instance_hi |-> 1000 * i + 3,
     instance_lo |-> 70000 * i + 4, offset |-> 96 + 300 * i,
     filesize_raw |-> [hi |-> i % 2, lo |-> 5], memsize |-> 5 + (i \div 2),
     compression |-> 0, committed |-> i]

\* The entries write_merged pushes: offsets past the header, both tags.
WrittenEntryPool ==
    << [tgi |-> ManifestTgi, offset |-> 96, filesize |-> 300, memsize |-> 70000,
        compression |-> DeflateMarker, committed |-> 1],
       [tgi |-> Key2, offset |-> 396, filesize |-> 7, memsize |-> 7,
        compression |-> 0, committed |-> 513],
       [tgi |-> TGI(2, 5, U64(4, 3)), offset |-> 403, filesize |-> 0, memsize |-> 0,
        compression |-> 1, committed |-> 0] >>

\* Index blocks with where they came from; each also with its last byte cut.
IndexInputs(max) ==
    LET whole ==
          { [src |-> [kind |-> "foreign", index_type |-> t,
                      recs |-> [i \in 1..n |-> ForeignRec(i)]],
             data |-> ForeignIndexBlock(t, ForeignConsts, [i \in 1..n |-> ForeignRec(i)]),
             index_count |-> n] : t \in 0..7, n \in 0..max }
          \cup
          UNION { { [src |-> [kind |-> "written",
                              entries |-> [i \in 1..n |-> WrittenEntryPool[c[i]]]],
                     data |-> write_index([i \in 1..n |-> WrittenEntryPool[c[i]]]),
                     index_count |-> n] :
                    c \in [1..n -> 1..Len(WrittenEntryPool)] } : n \in 0..max }
    IN  whole \cup { [x EXCEPT !.data = SubSeq(x.data, 1, Len(x.data) - 1)] : x \in whole }

InitIndex ==
    /\ index_rd \in { [src |-> x.src, data |-> x.data, index_count |-> x.index_count,
                       pc |-> "type", pos |-> 0, index_type |-> 0,
                       constant_type |-> <<>>, constant_group |-> <<>>,
                       constant_instance_hi |-> <<>>, entries |-> <<>>, ret |-> <<>>] :
                      x \in IndexInputs(MaxIndexEntries) }
    /\ IdleHeader /\ IdleManifest /\ IdleOpen /\ IdlePackage /\ IdleMerge /\ IdleUnmerge
    /\ IdleDirs /\ IdleEncode /\ IdleTyped /\ IdleRcol /\ IdleRefpack /\ IdleFan

NotIndex ==
    <<hdrVars, manVars, openVars, pkgVars, mergeVars, unmergeVars, dirVars, encVars,
      typedVars, rcolVars, refpackVars, fanVars>>

IndexFail ==
    [index_rd EXCEPT !.pc = "done", !.ret = <<Err("failed to fill whole buffer")>>]

\* file.read_exact(&mut type_buf) and the three constants.
IndexReadConstants ==
    /\ index_rd # <<>>
    /\ index_rd.pc = "type"
    /\ \E d \in {index_rd.data} :
         IF Len(d) < 4 THEN index_rd' = IndexFail
         ELSE \E index_type \in {FromLE32(Take(d, 0, 4))} :
              \E n1 \in {IF Bit(index_type, 0) # 0 THEN 1 ELSE 0} :
              \E n2 \in {n1 + (IF Bit(index_type, 1) # 0 THEN 1 ELSE 0)} :
              \E n3 \in {n2 + (IF Bit(index_type, 2) # 0 THEN 1 ELSE 0)} :
                IF 4 + 4 * n3 > Len(d) THEN index_rd' = IndexFail
                ELSE index_rd' =
                       [index_rd EXCEPT
                          !.pc = "entries",
                          !.index_type = index_type,
                          !.constant_type =
                              IF Bit(index_type, 0) # 0 THEN <<FromLE32(Take(d, 4, 4))>>
                              ELSE <<>>,
                          !.constant_group =
                              IF Bit(index_type, 1) # 0
                              THEN <<FromLE32(Take(d, 4 + 4 * n1, 4))>> ELSE <<>>,
                          !.constant_instance_hi =
                              IF Bit(index_type, 2) # 0
                              THEN <<FromLE32(Take(d, 4 + 4 * n2, 4))>> ELSE <<>>,
                          !.pos = 4 + 4 * n3]
    /\ UNCHANGED NotIndex

\* One iteration of for _ in 0..header.index_count.
IndexReadEntry ==
    /\ index_rd # <<>>
    /\ index_rd.pc = "entries"
    /\ Len(index_rd.entries) < index_rd.index_count
    /\ \E d \in {index_rd.data} :
       \E p1 \in {index_rd.pos + (IF index_rd.constant_type # <<>> THEN 0 ELSE 4)} :
       \E p2 \in {p1 + (IF index_rd.constant_group # <<>> THEN 0 ELSE 4)} :
       \E p3 \in {p2 + (IF index_rd.constant_instance_hi # <<>> THEN 0 ELSE 4)} :
         IF p3 + 20 > Len(d) THEN index_rd' = IndexFail
         ELSE \E res_type \in {IF index_rd.constant_type # <<>>
                               THEN index_rd.constant_type[1]
                               ELSE FromLE32(Take(d, index_rd.pos, 4))} :
              \E res_group \in {IF index_rd.constant_group # <<>>
                                THEN index_rd.constant_group[1]
                                ELSE FromLE32(Take(d, p1, 4))} :
              \E instance_hi \in {IF index_rd.constant_instance_hi # <<>>
                                  THEN index_rd.constant_instance_hi[1]
                                  ELSE FromLE32(Take(d, p2, 4))} :
                index_rd' =
                  [index_rd EXCEPT
                     !.pos = p3 + 20,
                     !.entries = Append(@, ReadIndexRecord(Take(d, p3, 20), res_type,
                                                           res_group, instance_hi))]
    /\ UNCHANGED NotIndex

\* Ok(Self { header, entries, file })
IndexReturn ==
    /\ index_rd # <<>>
    /\ index_rd.pc = "entries"
    /\ Len(index_rd.entries) = index_rd.index_count
    /\ index_rd' = [index_rd EXCEPT !.pc = "done", !.ret = <<Ok(index_rd.entries)>>]
    /\ UNCHANGED NotIndex

NextIndex == IndexReadConstants \/ IndexReadEntry \/ IndexReturn

SpecIndex == InitIndex /\ [][NextIndex]_vars

\* C24: in the entries Package::open returns, kind, group and instance-high
\* are the constant after index_type when bit 0x01, 0x02, 0x04 of index_type
\* is set and the record's own value otherwise, the instance is made of that
\* high word and the record's low word, and an index written by write_merged
\* is read back with the key, offset, memory size and committed of every
\* entry written.
C24_IndexDecoded ==
    (index_rd # <<>> /\ index_rd.pc = "done" /\ index_rd.ret[1].ok) =>
        LET es == index_rd.ret[1].val
            src == index_rd.src
        IN  /\ Len(es) = index_rd.index_count
            /\ src.kind = "foreign" =>
                 \A i \in 1..Len(es) :
                     /\ es[i].tgi.res_type =
                          IF BitAnd(src.index_type, 1) # 0 THEN ForeignConsts.res_type
                          ELSE src.recs[i].res_type
                     /\ es[i].tgi.res_group =
                          IF BitAnd(src.index_type, 2) # 0 THEN ForeignConsts.res_group
                          ELSE src.recs[i].res_group
                     /\ es[i].tgi.instance =
                          U64(IF BitAnd(src.index_type, 4) # 0 THEN ForeignConsts.instance_hi
                              ELSE src.recs[i].instance_hi,
                              src.recs[i].instance_lo)
            /\ src.kind = "written" =>
                 /\ index_rd.index_type = 0
                 /\ Len(index_rd.data) = 4 + 32 * Len(src.entries)
                 /\ \A i \in 1..Len(es) :
                     /\ es[i].tgi = src.entries[i].tgi
                     /\ es[i].offset = src.entries[i].offset
                     /\ es[i].memsize = src.entries[i].memsize
                     /\ es[i].committed = src.entries[i].committed

\* Two entries written by write_merged and read back, the second with
\* instance 3 * 2^32 + 4.
C24_Witness ==
    /\ index_rd # <<>>
    /\ index_rd.pc = "done"
    /\ index_rd.ret[1].ok
    /\ index_rd.src.kind = "written"
    /\ Len(index_rd.ret[1].val) = 2
    /\ index_rd.ret[1].val[2].tgi.instance = U64(3, 4)
    /\ index_rd.ret[1].val[2].committed = 513

(***************************************************************************)
(* The parallel units of run_unmerge and run_extract_thumbnails reading    *)
(* the merged file: file handles with their positions, a seek and a read   *)
(* being separate steps that interleave between units.                     *)
(***************************************************************************)

MaxFanUnits == 2

\* The payload region of the merged file and the entries the units read.
FanBody == <<11, 12, 13, 14, 15, 16>>

FanEntries ==
    << [offset |-> 96, filesize |-> 2], [offset |-> 98, filesize |-> 3],
       [offset |-> 101, filesize |-> 1] >>

FanFileLen == HeaderSize + Len(FanBody) + 4 + 32 * Len(FanEntries)

\* read_exact of n bytes at pos; bytes outside the payload region read as 0.
FanBytes(pos, n) ==
    [i \in 1..n |->
        IF pos + i - 1 >= HeaderSize /\ pos + i - 1 < HeaderSize + Len(FanBody)
        THEN FanBody[pos + i - HeaderSize] ELSE 0]

\* What the units are to read: a manifest entry's keys found in the index,
\* or one thumbnail each.
FanTodo(kind) ==
    IF kind = "unmerge" THEN {<<>>, <<1>>, <<2, 3>>, <<3, 1>>}
    ELSE {<<i>> : i \in 1..Len(FanEntries)}

\* The unit keeps using the handle of the Package the main thread opened.
pkg_thread_shared(n_handles, w) == 1

\* The handle of the Package::open(path) the unit has just done.
pkg_thread(n_handles, w) == n_handles

InitFan ==
    /\ fanout \in
         UNION { { [kind |-> kind,
                    handles |-> << [owner |-> 0, pos |-> FanFileLen, users |-> {}] >>,
                    units |-> [w \in 1..n |-> [pc |-> "open", handle |-> 0, todo |-> t[w],
                                               got |-> <<>>, ret |-> <<>>]]] :
                   t \in [1..n -> FanTodo(kind)] } :
                 kind \in {"unmerge", "thumbnails"}, n \in 1..MaxFanUnits }
    /\ IdleHeader /\ IdleManifest /\ IdleOpen /\ IdlePackage /\ IdleMerge /\ IdleUnmerge
    /\ IdleDirs /\ IdleEncode /\ IdleTyped /\ IdleRcol /\ IdleRefpack /\ IdleIndex

NotFan ==
    <<hdrVars, manVars, openVars, pkgVars, mergeVars, unmergeVars, dirVars, encVars,
      typedVars, rcolVars, refpackVars, indexVars>>

\* let mut pkg_thread = Package::open(path)?
FanOpen(w) ==
    /\ fanout.units[w].pc = "open"
    /\ \E hs \in {Append(fanout.handles, [owner |-> w, pos |-> FanFileLen, users |-> {}])} :
         fanout' = [fanout EXCEPT
                      !.handles = hs,
                      !.units[w].handle = pkg_thread(Len(hs), w),
                      !.units[w].pc = IF fanout.units[w].todo = <<>> THEN "done" ELSE "seek",
                      !.units[w].ret = IF fanout.units[w].todo = <<>> THEN <<Ok(<<>>)>>
                                       ELSE <<>>]
    /\ UNCHANGED NotFan

\* file.seek(SeekFrom::Start(entry.offset as u64))
FanSeek(w) ==
    /\ fanout.units[w].pc = "seek"
    /\ \E u \in {fanout.units[w]} :
       \E entry \in {FanEntries[u.todo[Len(u.got) + 1]]} :
         fanout' = [fanout EXCEPT
                      !.handles[u.handle].pos = entry.offset,
                      !.handles[u.handle].users = @ \cup {w},
                      !.units[w].pc = "read"]
    /\ UNCHANGED NotFan

\* file.read_exact(&mut buf), and the next key of the unit
FanRead(w) ==
    /\ fanout.units[w].pc = "read"
    /\ \E u \in {fanout.units[w]} :
       \E entry \in {FanEntries[u.todo[Len(u.got) + 1]]} :
       \E pos \in {fanout.handles[u.handle].pos} :
         IF pos + entry.filesize > FanFileLen
         THEN fanout' = [fanout EXCEPT
                           !.units[w].pc = "done",
                           !.units[w].ret = <<Err("failed to fill whole buffer")>>]
         ELSE fanout' = [fanout EXCEPT
                           !.handles[u.handle].pos = pos + entry.filesize,
                           !.handles[u.handle].users = @ \cup {w},
                           !.units[w].got = Append(@, FanBytes(pos, entry.filesize)),
                           !.units[w].pc = IF Len(u.got) + 1 = Len(u.todo) THEN "done"
                                           ELSE "seek",
                           !.units[w].ret = IF Len(u.got) + 1 = Len(u.todo)
                                            THEN <<Ok(Append(u.got,
                                                             FanBytes(pos, entry.filesize)))>>
                                            ELSE <<>>]
    /\ UNCHANGED NotFan

NextFan ==
    /\ fanout # <<>>
    /\ \E w \in 1..Len(fanout.units) : FanOpen(w) \/ FanSeek(w) \/ FanRead(w)

SpecFan == InitFan /\ [][NextFan]_vars

\* C25: no handle is used by two units (each unit uses the handle it opened,
\* none the main thread's), a unit about to read stands where it seeked to,
\* and what it reads are the bytes of its entry.
C25_OwnHandlePerUnit ==
    fanout # <<>> =>
        /\ \A h \in 1..Len(fanout.handles) :
               /\ Cardinality(fanout.handles[h].users) <= 1
               /\ fanout.handles[h].users \subseteq {fanout.handles[h].owner}
        /\ fanout.handles[1].users = {}
        /\ \A w \in 1..Len(fanout.units) :
               LET u == fanout.units[w] IN
               /\ u.pc = "read" =>
                      fanout.handles[u.handle].pos = FanEntries[u.todo[Len(u.got) + 1]].offset
               /\ \A j \in 1..Len(u.got) :
                      u.got[j] = Take(FanBody, FanEntries[u.todo[j]].offset - HeaderSize,
                                      FanEntries[u.todo[j]].filesize)
               /\ u.pc = "done" => (u.ret[1].ok /\ Len(u.got) = Len(u.todo))

\* Two units of run_unmerge in flight: the first has seeked and not yet
\* read, the second has seeked elsewhere and read since.
C25_Witness ==
    /\ fanout # <<>>
    /\ fanout.kind = "unmerge"
    /\ Len(fanout.units) = 2
    /\ fanout.units[1].pc = "read" /\ fanout.units[1].todo = <<3, 1>>
    /\ fanout.units[1].got = <<>>
    /\ fanout.units[2].todo = <<2, 3>> /\ Len(fanout.units[2].got) = 2
    /\ fanout.handles[fanout.units[1].handle].pos = 101
    /\ fanout.handles[fanout.units[2].handle].pos = 102

\* The last source in the list among those that hold key k.
LastOwner(k) == CHOOSE i \in Owners(k) : \A j \in Owners(k) : j <= i

\* The value run_merge's map holds for a key after the fold is the one read
\* from the last source holding it, whatever order the workers finished in.
FoldKeepsLastSource ==
    merge_pc = "written" =>
        \A k \in {Key1, Key2, Key3} :
            Owners(k) # {} =>
                LET src == SourceFile(LastOwner(k)) IN
                /\ k \in DOMAIN merged_data
                /\ merged_data[k].data = ReadKey(src, k).val
                /\ merged_data[k].memsize = StoredOf(src, k).memsize
                /\ merged_data[k].compression = StoredOf(src, k).compression
                /\ merged_data[k].committed = StoredOf(src, k).committed

\* C26: when several successfully processed sources hold a key, the archive
\* run_merge wrote holds for it the payload, memory size and committed field
\* of the last of them in the list of source files, in every order the
\* workers finish in.
C26_LastSourceWins ==
    merged_package # <<>> =>
        \A k \in {Key1, Key2, Key3} :
            Cardinality(Owners(k)) >= 2 =>
                LET src == SourceFile(LastOwner(k)) IN
                /\ ReadKey(merged_package[1], k) = ReadKey(src, k)
                /\ StoredOf(merged_package[1], k).memsize = StoredOf(src, k).memsize
                /\ StoredOf(merged_package[1], k).committed = StoredOf(src, k).committed

\* C27: two units of run_unmerge whose manifest entries have different
\* names never both write the same output file.
C27_DistinctOutputPaths ==
    manifest # <<>> =>
        \A i, j \in 1..Len(manifest[1].entries) :
            (/\ manifest[1].entries[i].name # manifest[1].entries[j].name
             /\ unit_results[i] # <<>> /\ unit_results[i][1].ok
             /\ unit_results[j] # <<>> /\ unit_results[j][1].ok)
            => unit_results[i][1].val.filename # unit_results[j][1].val.filename

\* The stored sizes of the first n entries of an index, added up.
RECURSIVE SizesBefore(_, _)
SizesBefore(es, n) == IF n = 0 THEN 0 ELSE es[n].filesize + SizesBefore(es, n - 1)

\* The IndexEntry values write_merged pushes while it writes the payloads.
PushedEntries ==
    [i \in 1..Len(encode_results) |->
        [tgi |-> encode_results[i].out[1].tgi,
         offset |-> EncodedEntries[i].offset,
         filesize |-> Len(encode_results[i].out[1].final_data),
         memsize |-> encode_results[i].out[1].memsize,
         compression |-> encode_results[i].out[1].final_compression,
         committed |-> encode_results[i].out[1].committed]]

\* C28: in the file write_merged leaves for n resources every entry's offset
\* is 96 plus the stored sizes of the entries before it in the index, so the
\* payloads lie one after the other from byte 96 in disjoint ranges, each
\* range holding that entry's stored bytes; header.index_position is 96 plus
\* all stored sizes, header.index_count is n, and the index block is 4 + 32 * n
\* bytes that begin with index_type 0.
C28_PayloadLayout ==
    encode_file # <<>> =>
        LET f == encode_file[1]
            es == EncodedEntries
            n == Cardinality(DOMAIN resource_set)
            index == write_index(PushedEntries)
        IN  /\ Len(es) = n
            /\ f.header.index_count = n
            /\ \A i \in 1..n :
                   /\ es[i].offset = 96 + SizesBefore(es, i - 1)
                   /\ es[i].filesize = Len(encode_results[i].out[1].final_data)
                   /\ Take(f.body, es[i].offset - 96, es[i].filesize)
                          = encode_results[i].out[1].final_data
            /\ \A i, j \in 1..n : i < j => es[i].offset + es[i].filesize <= es[j].offset
            /\ f.header.index_position = 96 + SizesBefore(es, n)
            /\ f.header.index_position = 96 + Len(f.body)
            /\ f.index_type = 0
            /\ f.len = f.header.index_position + 4 + 32 * n
            /\ Len(index) = 4 + 32 * n
            /\ Take(index, 0, 4) = <<0, 0, 0, 0>>

\* Three resources written with compression: an empty payload, a 2-byte one
\* kept as it is and a 6-byte one deflated to 5 bytes.
C28_Witness ==
    /\ encode_file # <<>>
    /\ compress_arg
    /\ DOMAIN resource_set = {Key1, Key2, Key3}
    /\ [i \in 1..3 |-> EncodedEntries[i].offset] = <<96, 96, 98>>
    /\ encode_file[1].header.index_position = 103
    /\ encode_file[1].len = 203

\* decompress_refpack runs to its return: weak fairness of its own steps.
FairSpecRefpack == SpecRefpack /\ WF_vars(NextRefpack)

\* The step about to be taken ends the call without an error of a copy
\* because no opcode byte is left, or the trailer of the opcode is missing.
EndsAtOpcodeBoundary ==
    /\ refpack.pc = "loop"
    /\ \/ refpack.r_pos >= Len(refpack.data)
       \/ OpcodeLocals(refpack.data, refpack.r_pos).brk

\* The step about to be taken finds the input used up: inside the header or
\* the size field, at an opcode, inside a trailer or inside a literal run.
InputExhausted ==
    \/ refpack.pc = "header"
         /\ (\/ Len(refpack.data) < 2
             \/ /\ refpack.data[2] = 251
                /\ 2 + (IF refpack.data[1] >= 128 THEN 3 ELSE 4) > Len(refpack.data))
    \/ EndsAtOpcodeBoundary
    \/ /\ refpack.pc = "loop"
       /\ refpack.r_pos < Len(refpack.data)
       /\ LET l == OpcodeLocals(refpack.data, refpack.r_pos)
          IN  ~ l.brk /\ l.r_pos + l.num_plain > Len(refpack.data)

ZeroFilled ==
    /\ refpack'.pc = "done"
    /\ refpack'.ret = <<Ok(refpack.out \o [i \in 1..(refpack.memsize - Len(refpack.out)) |-> 0])>>

\* C29 as claimed: whenever the input is used up before the buffer is full
\* the call returns Ok with the bytes decoded so far followed by zero bytes.
C29_ExhaustedInputIsSuccess ==
    [][ (NextRefpack /\ Len(refpack.out) < refpack.memsize /\ InputExhausted)
            => ZeroFilled ]_vars

\* C29: decompress_refpack returns; what it returns is an error or a buffer
\* of exactly memsize bytes; every iteration that continues has consumed
\* input; when, before the buffer is full, no opcode byte is left or an
\* opcode's trailer bytes are missing, it returns Ok with the bytes decoded
\* so far followed by zero bytes; when the input ends inside the header, the
\* size field or a literal run it returns an error.
C29_TerminatesZeroFilled ==
    /\ <>(refpack.pc = "done")
    /\ [](refpack.pc = "done" =>
             /\ refpack.ret # <<>>
             /\ refpack.ret[1].ok => Len(refpack.ret[1].val) = refpack.memsize)
    /\ [][ /\ (RefpackOpcode /\ refpack'.pc = "loop") => refpack'.r_pos > refpack.r_pos
           /\ (NextRefpack /\ Len(refpack.out) < refpack.memsize /\ EndsAtOpcodeBoundary)
                  => ZeroFilled
           /\ (/\ NextRefpack /\ InputExhausted /\ ~ EndsAtOpcodeBoundary
               /\ (refpack.pc = "header" \/ Len(refpack.out) < refpack.memsize))
                  => (refpack'.pc = "done" /\ ~ refpack'.ret[1].ok) ]_vars

\* An opcode of class 0x80-0xBF with one of its two trailer bytes, after one
\* literal: Ok with the literal and three zero bytes.
C29_Witness ==
    /\ refpack # <<>>
    /\ refpack.pc = "done"
    /\ refpack.data = <<16, 251, 0, 0, 0, 4, 253, 65, 128, 0>>
    /\ refpack.memsize = 4
    /\ refpack.opcodes = <<253, 128>>
    /\ refpack.ret = <<Ok(<<65, 0, 0, 0>>)>>

\* The sources processed without error, in the order of the list.
ProcessedSources ==
    LET Good(i) == ~ SourceFails(SourceFile(i))
    IN  SelectSeq([i \in Sources |-> i], Good)

\* The non-manifest keys of archive f in the order of its index.
NonManifestKeySeq(f) ==
    LET NotManifest(k) == k.res_type # 2142678410 /\ k.res_type # 1944665835
        es == open(f).val.entries
    IN  SelectSeq([i \in 1..Len(es) |-> es[i].tgi], NotManifest)

\* The manifest read from the archive run_merge wrote.
MergedManifest ==
    LET pkg == open(merged_package[1]).val
        n == CHOOSE n \in ManifestKindEntries : TRUE
    IN  read_resource(pkg, pkg.entries[n])

\* C30: the manifest of the archive run_merge wrote has one entry per source
\* processed without error, in the order of the list, named by the source's
\* stem and listing the source's non-manifest keys in the order of its index,
\* and the keys listed in all entries together are the non-manifest keys of
\* the merged archive.
C30_ManifestListsSources ==
    merged_package # <<>> =>
        /\ MergedManifest.ok
        /\ LET listed == MergedManifest.val.entries
               good == ProcessedSources
           IN  /\ Len(listed) = Len(good)
               /\ \A j \in 1..Len(good) :
                      /\ listed[j].name = files_to_process[good[j]].stem
                      /\ listed[j].resources = NonManifestKeySeq(SourceFile(good[j]))
               /\ UNION { Range(listed[j].resources) : j \in 1..Len(listed) }
                      = NonManifestKeysOf(merged_package[1])

\* Two sources that both hold key (1, 0, 1): the first, whose payload for it
\* loses the collision, still lists it; the second lists its keys in the
\* order of its index, which is not the sorted one.
C30_Witness ==
    /\ merge_pc = "done"
    /\ merged_package # <<>>
    /\ Len(files_to_process) = 2
    /\ MergedManifest.ok
    /\ Len(MergedManifest.val.entries) = 2
    /\ MergedManifest.val.entries[1].resources = <<Key1>>
    /\ MergedManifest.val.entries[2].resources = <<Key3, Key1>>
    /\ ReadKey(merged_package[1], Key1) = Ok(PayloadB)
    /\ ReadKey(SourceFile(1), Key1) = Ok(PayloadA)

====
